---- MODULE Spec2Model ----
(***************************************************************************)
(* A model of the guava-backend HTTP handlers (Firebase Functions):        *)
(* validation, upsert-with-append, paginated reads and the approve / deny  *)
(* mover, over an abstract Firestore document store.                       *)
(*                                                                         *)
(* A collection is a function from document ids to documents.  A JSON      *)
(* object is a record (a function on its keys), so "k in obj" is           *)
(* k \in DOMAIN obj.  A JSON value whose Python type the code tests with   *)
(* isinstance is wrapped: [list |-> s] or [str |-> s].                     *)
(***************************************************************************)
EXTENDS Integers, Sequences, FiniteSets, TLC

VARIABLES
    db,      \* the document store: collection name -> (document id -> document)
    req,     \* the request handled last
    resp,    \* the response to it
    oplog,   \* the document-store calls made while handling it, in order
    hist,    \* per collection and key: the messages of the acknowledged stores
    nops,    \* number of writing requests handled so far
    pages,   \* the pages a paging client has fetched since the last write
    procs    \* the concurrent handler instances (position and locals of each)

vars == <<db, req, resp, oplog, hist, nops, pages, procs>>

-----------------------------------------------------------------------------
(* Bounds of the model *)

MaxBatch == 2
MaxOps == 2
BulkExtra == 2
MaxProcs == 2

-----------------------------------------------------------------------------
(* Program constants: constants/constants.py, constants.py *)

HTTP_OK == 200
HTTP_NO_CONTENT == 204
HTTP_MULTI_STATUS == 207
HTTP_BAD_REQUEST == 400
HTTP_FORBIDDEN == 403
HTTP_METHOD_NOT_ALLOWED == 405
HTTP_INTERNAL_SERVER_ERROR == 500
MAX_LIMIT == 100

LANDING_SITE_CONTACT_FORM_LEAD_COLLECTION == "landing-site-contact-form-lead"
MERCHANTS_COLLECTION == "merchants"
PENDING_MERCHANTS_COLLECTION == "pending-merchants"
CONTACTS_COLLECTION == "contacts"

Collections ==
    { LANDING_SITE_CONTACT_FORM_LEAD_COLLECTION, MERCHANTS_COLLECTION,
      PENDING_MERCHANTS_COLLECTION, CONTACTS_COLLECTION }

COLLECTION_REQUIRED_FIELDS(c) ==
    IF c \in {LANDING_SITE_CONTACT_FORM_LEAD_COLLECTION, CONTACTS_COLLECTION}
    THEN <<"name", "email", "message">>
    ELSE <<"name", "email", "address", "description", "industry">>

ALLOWED_ORIGINS ==
    { "http://localhost:3000", "https://localhost:3000", "https://guavaaa.com",
      "https://www.guavaaa.com", "https://kol.guavaaa.com",
      "http://192.168.1.181:3000", "https://192.168.1.181:3000" }

\* Python's None where the other values of the field are strings.
NoOrigin == "<None>"
PyNone == "<None>"

-----------------------------------------------------------------------------
(* utils.py *)

\* The e-mail addresses of the model, and str.lower().strip() on them.
Emails == { "a@b.com", " A@B.com", "c@d.com", "e@f.com", "g@h.com" }

normalize_email(email) ==
    CASE email = "a@b.com"  -> "a@b.com"
      [] email = " A@B.com" -> "a@b.com"
      [] email = "c@d.com"  -> "c@d.com"
      [] email = "e@f.com"  -> "e@f.com"
      [] email = "g@h.com"  -> "g@h.com"

\* urlsafe_b64encode(sha256(e))[:11] of the addresses of the model.
Sha256B64Prefix(normalized_email) ==
    CASE normalized_email = "a@b.com" -> "-5jUStdQGpW"
      [] normalized_email = " A@B.com" -> "66Ys3mlaoEj"
      [] normalized_email = "c@d.com" -> "0QVg0Xa0x0B"
      [] normalized_email = "e@f.com" -> "5mNe51rmG7U"
      [] normalized_email = "g@h.com" -> "7N5GeSPApvB"

email_to_short_id_raw(email) == Sha256B64Prefix(email)

email_to_short_id(email) == Sha256B64Prefix(normalize_email(email))

get_cors_headers(request_origin) ==
    IF request_origin # NoOrigin /\ request_origin \in ALLOWED_ORIGINS
    THEN [allow_origin |-> request_origin]
    ELSE [allow_origin |-> ""]

is_origin_allowed(request_origin) ==
    request_origin = NoOrigin \/ request_origin \in ALLOWED_ORIGINS

-----------------------------------------------------------------------------
(* JSON helpers *)

JList(s) == [list |-> s]
JStr(s) == [str |-> s]
JInt(n) == [int |-> n]
JNone == [none |-> TRUE]
IsList(v) == "list" \in DOMAIN v
IsStr(v) == "str" \in DOMAIN v
IsInt(v) == "int" \in DOMAIN v
IsNone(v) == "none" \in DOMAIN v

\* Python truthiness of the field values of the model (strings).
Falsy(v) == v = ""

\* dict.get(key, default)
DictGet(d, k, default) == IF k \in DOMAIN d THEN d[k] ELSE default

MissingFields_first_only(item, required_fields) ==
    LET missing == SelectSeq(required_fields, LAMBDA f : f \notin DOMAIN item \/ Falsy(item[f]))
    IN IF Len(missing) > 1 THEN <<missing[1]>> ELSE missing

MissingFields_absent_only(item, required_fields) ==
    SelectSeq(required_fields, LAMBDA f : f \notin DOMAIN item)

\* [f for f in required_fields if f not in item or not item[f]]
MissingFields(item, required_fields) ==
    SelectSeq(required_fields, LAMBDA f : f \notin DOMAIN item \/ Falsy(item[f]))

RECURSIVE JoinComma(_)
JoinComma(s) ==
    IF Len(s) = 0 THEN ""
    ELSE IF Len(s) = 1 THEN s[1]
    ELSE s[1] \o ", " \o JoinComma(Tail(s))

\* The firestore client: the state of one collection after set / delete.
DocSet(coll, id, data) ==
    [k \in DOMAIN coll \cup {id} |-> IF k = id THEN data ELSE coll[k]]

DocDelete(coll, id) == [k \in DOMAIN coll \ {id} |-> coll[k]]

\* One call on the firestore client; ok is FALSE when the call raised.
OpGet(c, id, ok) == [op |-> "get", coll |-> c, id |-> id, ok |-> ok]
OpSet(c, id, ok) == [op |-> "set", coll |-> c, id |-> id, ok |-> ok]
OpDelete(c, id, ok) == [op |-> "delete", coll |-> c, id |-> id, ok |-> ok]
OpTxn(c, id, ok) == [op |-> "transaction", coll |-> c, id |-> id, ok |-> ok]
OpQuery(c) == [op |-> "stream", coll |-> c, id |-> "", ok |-> TRUE]

\* str(exception) of a raising firestore call.
ErrorText(fault) == "firestore " \o fault \o " failed"

Response(status, origin, body) ==
    [status |-> status, headers |-> get_cors_headers(origin), body |-> body]

\* What a handler returns to the model: the store after it, its response and
\* the firestore calls it made.
Outcome(d, response, log) == [db |-> d, resp |-> response, log |-> log]

\* The accumulators of a store loop: the collection, the results, the client calls.
StoreState(coll) == [coll |-> coll, stored |-> <<>>, errors |-> <<>>, log |-> <<>>]

-----------------------------------------------------------------------------
(* routes/landing_site_contact_form_lead.py, main.py: the store handlers *)

\* The request checks every handler starts with: preflight, origin, method.
\* The response of the failing check, or JNone when the request passes.
handle_common_request_validation(r, allowed_method) ==
    IF r.method = "OPTIONS" THEN Response(HTTP_NO_CONTENT, r.origin, JStr(""))
    ELSE IF ~is_origin_allowed(r.origin)
    THEN Response(HTTP_FORBIDDEN, r.origin, [error |-> JStr("Origin not allowed")])
    ELSE IF r.method # allowed_method
    THEN Response(HTTP_METHOD_NOT_ALLOWED, r.origin,
                  [error |-> JStr("Only " \o allowed_method \o " method is allowed")])
    ELSE JNone

\* "<label> i+1: Missing required fields: f1, f2" for each failing item, in order.
RECURSIVE ValidationErrors(_, _, _, _)
ValidationErrors(items, required_fields, label, i) ==
    IF i > Len(items) THEN <<>>
    ELSE LET missing_fields == MissingFields(items[i], required_fields)
             rest == ValidationErrors(items, required_fields, label, i + 1)
         IN IF Len(missing_fields) > 0
            THEN <<label \o " " \o ToString(i) \o ": Missing required fields: "
                        \o JoinComma(missing_fields)>> \o rest
            ELSE rest

existing_messages_list_replace(existing_data) == <<>>

existing_messages_list_lists_only(existing_data) ==
    LET existing_messages == DictGet(existing_data, "message", JList(<<>>))
    IN IF IsList(existing_messages) THEN existing_messages.list ELSE <<>>

\* The prior message value as a list: a legacy string becomes one element,
\* anything else that is no list becomes the empty list.
existing_messages_list(existing_data) ==
    LET existing_messages ==
            IF DOMAIN existing_data # {}
            THEN DictGet(existing_data, "message", JList(<<>>))
            ELSE JList(<<>>)
    IN IF IsStr(existing_messages) THEN <<existing_messages.str>>
       ELSE IF IsList(existing_messages) THEN existing_messages.list
       ELSE <<>>

contact_data_no_optional(contact, updated_messages, current_datetime) ==
    [ name     |-> contact.name,
      email    |-> contact.email,
      phone    |-> "",
      company  |-> "",
      industry |-> "",
      message  |-> JList(updated_messages),
      datetime |-> current_datetime ]

contact_data(contact, updated_messages, current_datetime) ==
    [ name     |-> contact.name,
      email    |-> contact.email,
      phone    |-> DictGet(contact, "phone", ""),
      company  |-> DictGet(contact, "company", ""),
      industry |-> DictGet(contact, "industry", ""),
      message  |-> JList(updated_messages),
      datetime |-> current_datetime ]

contact_error_entry_zero_based(contact, i, text) ==
    [ contact_index |-> i,
      email         |-> DictGet(contact, "email", "unknown"),
      error         |-> text ]

contact_error_entry(contact, i, text) ==
    [ contact_index |-> i + 1,
      email         |-> DictGet(contact, "email", "unknown"),
      error         |-> text ]

\* One iteration of the store loop of a contact collection c whose document id
\* for an item is doc_id; i is the 0-based index of enumerate().
store_contact_iteration(st, c, doc_id, contact, fault, current_datetime, i) ==
    LET exists == doc_id \in DOMAIN st.coll
        new_message == contact.message
        updated_messages ==
            IF exists
            THEN existing_messages_list(st.coll[doc_id]) \o <<new_message>>
            ELSE <<new_message>>
        failed(log) ==
            [st EXCEPT !.errors = Append(@, contact_error_entry(contact, i, ErrorText(fault))),
                       !.log = @ \o log]
    IN IF fault = "get" THEN failed(<<OpGet(c, doc_id, FALSE)>>)
       ELSE IF fault = "set"
       THEN failed(<<OpGet(c, doc_id, TRUE), OpSet(c, doc_id, FALSE)>>)
       ELSE [ coll   |-> DocSet(st.coll, doc_id,
                                contact_data(contact, updated_messages, current_datetime)),
              stored |-> Append(st.stored,
                            [ email          |-> contact.email,
                              document_id    |-> doc_id,
                              status         |-> "success",
                              action         |-> IF exists THEN "updated" ELSE "created",
                              total_messages |-> Len(updated_messages) ]),
              errors |-> st.errors,
              log    |-> st.log \o <<OpGet(c, doc_id, TRUE), OpSet(c, doc_id, TRUE)>> ]

store_lead_item_raw_key(st, contact, fault, current_datetime, i) ==
    store_contact_iteration(st, LANDING_SITE_CONTACT_FORM_LEAD_COLLECTION,
                            Sha256B64Prefix(contact.email),
                            contact, fault, current_datetime, i)

\* routes/landing_site_contact_form_lead.py: doc_id = email_to_short_id(email)
store_lead_item(st, contact, fault, current_datetime, i) ==
    store_contact_iteration(st, LANDING_SITE_CONTACT_FORM_LEAD_COLLECTION,
                            email_to_short_id(contact.email),
                            contact, fault, current_datetime, i)

\* main.py: doc_id = contact['email']
store_legacy_contact_item(st, contact, fault, current_datetime, i) ==
    store_contact_iteration(st, CONTACTS_COLLECTION, contact.email,
                            contact, fault, current_datetime, i)

RECURSIVE store_contacts_loop_reversed(_, _, _, _, _, _)
store_contacts_loop_reversed(st, c, contacts_to_process, faults, current_datetime, i) ==
    IF i >= Len(contacts_to_process) THEN st
    ELSE LET rest == store_contacts_loop_reversed(st, c, contacts_to_process, faults,
                                                  current_datetime, i + 1)
         IN IF c = CONTACTS_COLLECTION
            THEN store_legacy_contact_item(rest, contacts_to_process[i + 1], faults[i + 1],
                                           current_datetime, i)
            ELSE store_lead_item(rest, contacts_to_process[i + 1], faults[i + 1],
                                 current_datetime, i)

RECURSIVE store_contacts_loop(_, _, _, _, _, _)
store_contacts_loop(st, c, contacts_to_process, faults, current_datetime, i) ==
    IF i >= Len(contacts_to_process) THEN st
    ELSE store_contacts_loop(
            IF c = CONTACTS_COLLECTION
            THEN store_legacy_contact_item(st, contacts_to_process[i + 1], faults[i + 1],
                                           current_datetime, i)
            ELSE store_lead_item(st, contacts_to_process[i + 1], faults[i + 1],
                                 current_datetime, i),
            c, contacts_to_process, faults, current_datetime, i + 1)

\* The response envelope of the two contact store handlers.
store_contacts_response(st, contacts_to_process) ==
    [ success             |-> Len(st.errors) = 0,
      total_contacts      |-> Len(contacts_to_process),
      stored_successfully |-> Len(st.stored),
      stored_contacts     |-> st.stored,
      message             |->
          IF Len(st.errors) > 0
          THEN "Partially successful: " \o ToString(Len(st.stored)) \o " of "
                   \o ToString(Len(contacts_to_process)) \o " contacts stored"
          ELSE "All " \o ToString(Len(st.stored)) \o " contact(s) stored successfully",
      errors              |-> IF Len(st.errors) > 0 THEN JList(st.errors) ELSE JNone ]

store_status_code(n_errors) == IF n_errors = 0 THEN HTTP_OK ELSE HTTP_MULTI_STATUS

\* The body of store_landing_site_contact_form_lead and of store_contact after
\* the request checks, for the collection c either of them writes.
store_contacts_handler(d, r, c) ==
    LET data == r.body
        bad(text) == Outcome(d, Response(HTTP_BAD_REQUEST, r.origin, [error |-> JStr(text)]), <<>>)
    IN IF DOMAIN data = {} THEN bad("No JSON data provided")
       ELSE IF "contacts" \in DOMAIN data /\ ~IsList(data.contacts)
       THEN bad("contacts field must be an array")
       ELSE IF "contacts" \in DOMAIN data /\ Len(data.contacts.list) = 0
       THEN bad("contacts array cannot be empty")
       ELSE
         LET contacts_to_process ==
                 IF "contacts" \in DOMAIN data THEN data.contacts.list ELSE <<data>>
             validation_errors ==
                 ValidationErrors(contacts_to_process, COLLECTION_REQUIRED_FIELDS(c),
                                  "Contact", 1)
         IN IF Len(validation_errors) > 0
            THEN Outcome(d, Response(HTTP_BAD_REQUEST, r.origin,
                                     [error |-> JList(validation_errors)]), <<>>)
            ELSE
              LET st == store_contacts_loop(StoreState(d[c]), c, contacts_to_process,
                                            r.faults, r.now, 0)
              IN Outcome([d EXCEPT ![c] = st.coll],
                         Response(store_status_code(Len(st.errors)), r.origin,
                                  store_contacts_response(st, contacts_to_process)),
                         st.log)

store_landing_site_contact_form_lead(d, r) ==
    LET rejected == handle_common_request_validation(r, "POST")
    IN IF ~IsNone(rejected) THEN Outcome(d, rejected, <<>>)
       ELSE store_contacts_handler(d, r, LANDING_SITE_CONTACT_FORM_LEAD_COLLECTION)

store_contact(d, r) ==
    LET rejected == handle_common_request_validation(r, "POST")
    IN IF ~IsNone(rejected) THEN Outcome(d, rejected, <<>>)
       ELSE store_contacts_handler(d, r, CONTACTS_COLLECTION)

-----------------------------------------------------------------------------
(* routes/merchant.py: the store handlers *)

merchant_data(merchant, current_datetime) ==
    [ name        |-> merchant.name,
      email       |-> merchant.email,
      address     |-> merchant.address,
      description |-> merchant.description,
      industry    |-> merchant.industry,
      phone       |-> DictGet(merchant, "phone", PyNone),
      datetime    |-> current_datetime ]

\* The entry of the except branch of the store loop; i is enumerate()'s index.
merchant_error_entry(merchant, i, text) ==
    [ merchant_index |-> i,
      email          |-> DictGet(merchant, "email", "unknown"),
      error          |-> text ]

store_merchant_item_set_applied(st, collection_name, merchant, fault, current_datetime, i) ==
    LET doc_id == email_to_short_id(normalize_email(merchant.email))
        exists == doc_id \in DOMAIN st.coll
        written == DocSet(st.coll, doc_id, merchant_data(merchant, current_datetime))
    IN IF fault = "none"
       THEN [ coll   |-> written,
              stored |-> Append(st.stored,
                            [ email       |-> merchant.email,
                              document_id |-> doc_id,
                              status      |-> "success",
                              action      |-> IF exists THEN "updated" ELSE "created" ]),
              errors |-> st.errors,
              log    |-> st.log \o <<OpGet(collection_name, doc_id, TRUE),
                                     OpSet(collection_name, doc_id, TRUE)>> ]
       ELSE [ coll   |-> IF fault = "set" THEN written ELSE st.coll,
              stored |-> st.stored,
              errors |-> Append(st.errors, merchant_error_entry(merchant, i, ErrorText(fault))),
              log    |-> st.log \o <<OpGet(collection_name, doc_id, fault = "set")>> ]

\* One iteration of the store loop of process_merchants_for_storage.
store_merchant_item(st, collection_name, merchant, fault, current_datetime, i) ==
    LET normalized_email == normalize_email(merchant.email)
        doc_id == email_to_short_id(normalized_email)
        exists == doc_id \in DOMAIN st.coll
        failed(log) ==
            [st EXCEPT !.errors = Append(@, merchant_error_entry(merchant, i, ErrorText(fault))),
                       !.log = @ \o log]
    IN IF fault = "get" THEN failed(<<OpGet(collection_name, doc_id, FALSE)>>)
       ELSE IF fault = "set"
       THEN failed(<<OpGet(collection_name, doc_id, TRUE),
                     OpSet(collection_name, doc_id, FALSE)>>)
       ELSE [ coll   |-> DocSet(st.coll, doc_id, merchant_data(merchant, current_datetime)),
              stored |-> Append(st.stored,
                            [ email       |-> merchant.email,
                              document_id |-> doc_id,
                              status      |-> "success",
                              action      |-> IF exists THEN "updated" ELSE "created" ]),
              errors |-> st.errors,
              log    |-> st.log \o <<OpGet(collection_name, doc_id, TRUE),
                                     OpSet(collection_name, doc_id, TRUE)>> ]

RECURSIVE store_merchants_loop(_, _, _, _, _, _)
store_merchants_loop(st, collection_name, merchants_to_process, faults, current_datetime, i) ==
    IF i >= Len(merchants_to_process) THEN st
    ELSE store_merchants_loop(
            store_merchant_item(st, collection_name, merchants_to_process[i + 1],
                                faults[i + 1], current_datetime, i),
            collection_name, merchants_to_process, faults, current_datetime, i + 1)

\* The envelope of a pre-validation rejection: one entry per error string,
\* numbered by its position in the list of error strings.
merchant_validation_response(merchants_to_process, validation_errors) ==
    [ success             |-> FALSE,
      total_merchants     |-> Len(merchants_to_process),
      stored_successfully |-> 0,
      stored_merchants    |-> <<>>,
      message             |-> "Validation failed for " \o ToString(Len(validation_errors))
                                  \o " merchant(s)",
      errors              |-> JList([i \in 1..Len(validation_errors) |->
                                        [ merchant_index |-> (i - 1) + 1,
                                          email          |-> "",
                                          error          |-> validation_errors[i] ]]) ]

\* The collection after the call, the response envelope and the client calls.
process_merchants_for_storage(coll, merchants_to_process, collection_name, required_fields, faults, current_datetime) ==
    LET validation_errors ==
            ValidationErrors(merchants_to_process, required_fields, "Merchant", 1)
    IN IF Len(validation_errors) > 0
       THEN [ coll |-> coll,
              response |-> merchant_validation_response(merchants_to_process,
                                                        validation_errors),
              log |-> <<>> ]
       ELSE LET st == store_merchants_loop(StoreState(coll), collection_name,
                                           merchants_to_process, faults,
                                           current_datetime, 0)
            IN [ coll |-> st.coll,
                 response |->
                   [ success             |-> Len(st.errors) = 0,
                     total_merchants     |-> Len(merchants_to_process),
                     stored_successfully |-> Len(st.stored),
                     stored_merchants    |-> st.stored,
                     message             |-> "Successfully stored "
                         \o ToString(Len(st.stored)) \o " out of "
                         \o ToString(Len(merchants_to_process)) \o " merchants",
                     errors              |-> IF Len(st.errors) > 0
                                             THEN JList(st.errors) ELSE JNone ],
                 log |-> st.log ]

\* The message store_pending_merchant puts in place of the helper's.
pending_message(response_data) ==
    IF response_data.success
    THEN "All " \o ToString(response_data.stored_successfully)
             \o " pending merchant(s) stored successfully"
    ELSE "Partially successful: " \o ToString(response_data.stored_successfully)
             \o " of " \o ToString(response_data.total_merchants)
             \o " pending merchants stored"

\* The body of store_merchant and store_pending_merchant after the request checks.
store_merchants_handler(d, r, c) ==
    LET data == r.body
        bad(text) == Outcome(d, Response(HTTP_BAD_REQUEST, r.origin, [error |-> JStr(text)]), <<>>)
    IN IF DOMAIN data = {} THEN bad("No JSON data provided")
       ELSE IF "merchants" \in DOMAIN data /\ ~IsList(data.merchants)
       THEN bad("merchants field must be an array")
       ELSE IF "merchants" \in DOMAIN data /\ Len(data.merchants.list) = 0
       THEN bad("merchants array cannot be empty")
       ELSE
         LET merchants_to_process ==
                 IF "merchants" \in DOMAIN data THEN data.merchants.list ELSE <<data>>
             done == process_merchants_for_storage(d[c], merchants_to_process, c,
                         COLLECTION_REQUIRED_FIELDS(c), r.faults, r.now)
             response_data ==
                 IF c = PENDING_MERCHANTS_COLLECTION
                 THEN [done.response EXCEPT !.message = pending_message(done.response)]
                 ELSE done.response
         IN Outcome([d EXCEPT ![c] = done.coll],
                    Response(IF response_data.success THEN HTTP_OK ELSE HTTP_MULTI_STATUS,
                             r.origin, response_data),
                    done.log)

store_merchant(d, r) ==
    LET rejected == handle_common_request_validation(r, "POST")
    IN IF ~IsNone(rejected) THEN Outcome(d, rejected, <<>>)
       ELSE store_merchants_handler(d, r, MERCHANTS_COLLECTION)

store_pending_merchant(d, r) ==
    LET rejected == handle_common_request_validation(r, "POST")
    IN IF ~IsNone(rejected) THEN Outcome(d, rejected, <<>>)
       ELSE store_merchants_handler(d, r, PENDING_MERCHANTS_COLLECTION)

-----------------------------------------------------------------------------
(* routes/merchant.py: the paginated reader *)

\* str.strip() on the identifiers of the model: the padded ones lose their
\* blanks, a blank one becomes empty.
Strip(s) ==
    CASE s = " -5jUStdQGpW " -> "-5jUStdQGpW"
      [] s = " 0QVg0Xa0x0B" -> "0QVg0Xa0x0B"
      [] s = " " -> ""
      [] OTHER -> s

\* int(limit_param) on the limit strings of the model; JNone is ValueError.
ParseInt(s) ==
    CASE s = "-1" -> JInt(0 - 1)
      [] s = "0" -> JInt(0)
      [] s = "1" -> JInt(1)
      [] s = "2" -> JInt(2)
      [] s = "3" -> JInt(3)
      [] s = "99" -> JInt(99)
      [] s = "100" -> JInt(100)
      [] s = "101" -> JInt(101)
      [] s = "500" -> JInt(500)
      [] OTHER -> JNone

\* datetime.isoformat() on the timestamps of the model (seconds of one minute).
IsoFormat(t) ==
    "2025-01-01T00:00:" \o (IF t < 10 THEN "0" ELSE "") \o ToString(t)

\* Firestore orders document ids as strings.  The ids of the model in that
\* order: the short ids of the e-mails, then the ids "m1001", "m1002", ...
ShortIds == <<"-5jUStdQGpW", "0QVg0Xa0x0B", "5mNe51rmG7U", "7N5GeSPApvB">>
BulkId(i) == "m" \o ToString(1000 + i)
BulkCount == MAX_LIMIT + BulkExtra
SortedIds == ShortIds \o [i \in 1..BulkCount |-> BulkId(i)]
IdIndex ==
    [id \in { SortedIds[i] : i \in 1..Len(SortedIds) } |->
        CHOOSE i \in 1..Len(SortedIds) : SortedIds[i] = id]
IdRank(id) == IdIndex[id]

\* Document a comes before document b in order_by('datetime', DESCENDING): the
\* later timestamp first and, the query being continued from a snapshot, equal
\* timestamps by document id in the same direction.
ComesBefore(coll, a, b) ==
    \/ coll[a].datetime > coll[b].datetime
    \/ coll[a].datetime = coll[b].datetime /\ IdRank(a) > IdRank(b)

\* The ids of the documents of ids in query order.
InOrder(coll, ids) ==
    SortSeq(SelectSeq(SortedIds, LAMBDA id : id \in ids),
            LAMBDA a, b : ComesBefore(coll, a, b))

StartAfter_timestamp_only(coll, ids, cursor) ==
    { a \in ids : coll[cursor].datetime > coll[a].datetime }

\* query.start_after(cursor_doc): the documents that come after the cursor's.
StartAfter(coll, ids, cursor) == { a \in ids : ComesBefore(coll, cursor, a) }

Truthy(param) == ~IsNone(param) /\ param.str # ""

FirstN(s, n) == IF Len(s) <= n THEN s ELSE SubSeq(s, 1, n)

cursor_start_strict(coll, ordered, cursor) ==
    IF ~Truthy(cursor) THEN ordered
    ELSE IF cursor.str \in DOMAIN coll THEN StartAfter(coll, ordered, cursor.str)
    ELSE {}

\* 'if cursor:' with the lookup of the cursor document: the documents the
\* query ranges over, all of them when the cursor is not given or its document
\* does not exist.
cursor_start(coll, ordered, cursor) ==
    IF Truthy(cursor) /\ cursor.str \in DOMAIN coll
    THEN StartAfter(coll, ordered, cursor.str)
    ELSE ordered

stream_query_start_at(coll, limit, cursor) ==
    LET ordered == { a \in DOMAIN coll : "datetime" \in DOMAIN coll[a] }
        docs == InOrder(coll, cursor_start(coll, ordered, cursor)
                              \cup (IF Truthy(cursor) THEN {cursor.str} \cap ordered ELSE {}))
    IN IF IsInt(limit) /\ limit.int # 0 /\ limit.int > 0
       THEN FirstN(docs, limit.int)
       ELSE docs

\* The documents query.stream() yields for cursor and limit, as ids in order.
stream_query(coll, limit, cursor) ==
    LET ordered == { a \in DOMAIN coll : "datetime" \in DOMAIN coll[a] }
        docs == InOrder(coll, cursor_start(coll, ordered, cursor))
    IN IF IsInt(limit) /\ limit.int # 0 /\ limit.int > 0
       THEN FirstN(docs, limit.int)
       ELSE docs

\* doc.to_dict() with the timestamp as text and the document id as 'id'.
merchant_response(coll, id) ==
    [f \in DOMAIN coll[id] \cup {"id"} |->
        IF f = "id" THEN id
        ELSE IF f = "datetime" THEN IsoFormat(coll[id].datetime)
        ELSE coll[id][f]]

\* identifiers_param.split(','), stripped, without the empty ones.  The
\* parameter is given as its comma-separated segments.
identifier_list(identifiers_param) ==
    LET stripped == [i \in 1..Len(identifiers_param.segments) |->
                        Strip(identifiers_param.segments[i])]
    IN SelectSeq(stripped, LAMBDA x : x # "")

\* bool(identifiers_param): the parameter is given and is not the empty string.
has_identifiers(identifiers_param) ==
    ~IsNone(identifiers_param) /\ identifiers_param.segments # <<"">>

fetch_by_identifier_once(coll, ids) ==
    LET first(i) == \A j \in 1..(i - 1) : ids[j] # ids[i]
        kept == SelectSeq([i \in 1..Len(ids) |-> i],
                          LAMBDA i : first(i) /\ ids[i] \in DOMAIN coll
                                        /\ DOMAIN coll[ids[i]] # {})
    IN [i \in 1..Len(kept) |-> ids[kept[i]]]

\* The loop over identifier_list: one get per identifier, in the order given;
\* the ids of the documents that exist and are not empty.
fetch_by_identifier(coll, ids) ==
    SelectSeq(ids, LAMBDA x : x \in DOMAIN coll /\ DOMAIN coll[x] # {})

next_cursor_of_last(merchants, limit) ==
    IF Len(merchants) > 0 THEN merchants[Len(merchants)].id ELSE PyNone

\* The next_cursor of a page: the id of its last record when the page is full.
next_cursor_of(merchants, limit) ==
    IF IsInt(limit) /\ limit.int # 0 /\ Len(merchants) = limit.int /\ Len(merchants) > 0
    THEN merchants[Len(merchants)].id
    ELSE PyNone

has_more_always(merchants, limit) == IsInt(limit) /\ Len(merchants) > 0

has_more_of(merchants, limit) ==
    IsInt(limit) /\ limit.int # 0 /\ Len(merchants) = limit.int

\* The response data and the client calls of get_merchants_from_collection.
get_merchants_from_collection(coll, collection_name, identifiers_param, limit, cursor) ==
    IF has_identifiers(identifiers_param)
    THEN LET ids == identifier_list(identifiers_param)
             found == fetch_by_identifier(coll, ids)
             merchants == [i \in 1..Len(found) |-> merchant_response(coll, found[i])]
         IN IF Len(ids) > 0
            THEN [ data |-> [ success |-> TRUE, merchants |-> merchants,
                              count |-> Len(merchants), filtered |-> TRUE,
                              pagination |-> JNone ],
                   log |-> [i \in 1..Len(ids) |-> OpGet(collection_name, ids[i], TRUE)] ]
            ELSE [ data |-> [ success |-> FALSE, merchants |-> <<>>,
                              count |-> 0, filtered |-> TRUE ],
                   log |-> <<>> ]
    ELSE LET docs == SelectSeq(stream_query(coll, limit, cursor),
                               LAMBDA x : DOMAIN coll[x] # {})
             merchants == [i \in 1..Len(docs) |-> merchant_response(coll, docs[i])]
         IN [ data |-> [ success |-> TRUE, merchants |-> merchants,
                         count |-> Len(merchants), filtered |-> FALSE,
                         pagination |-> [ has_more |-> has_more_of(merchants, limit),
                                          next_cursor |-> next_cursor_of(merchants, limit),
                                          limit |-> limit ] ],
              log |-> (IF Truthy(cursor)
                       THEN <<OpGet(collection_name, cursor.str, TRUE)>> ELSE <<>>)
                      \o <<OpQuery(collection_name)>> ]

clamp_none(limit) == limit

\* if limit > 100: limit = 100
clamp_limit(limit) == IF limit > MAX_LIMIT THEN MAX_LIMIT ELSE limit

\* get_merchants and get_pending_merchants after the request checks, for the
\* collection c either of them reads.
get_merchants_handler(d, r, c) ==
    LET parsed == IF Truthy(r.limit) THEN ParseInt(r.limit.str) ELSE JNone
        bad(text) == Outcome(d, Response(HTTP_BAD_REQUEST, r.origin, [error |-> JStr(text)]), <<>>)
    IN IF Truthy(r.limit) /\ IsNone(parsed) THEN bad("limit must be a valid integer")
       ELSE IF Truthy(r.limit) /\ parsed.int <= 0 THEN bad("limit must be a positive integer")
       ELSE LET limit == IF Truthy(r.limit) THEN JInt(clamp_limit(parsed.int)) ELSE JNone
                got == get_merchants_from_collection(d[c], c, r.identifiers, limit, r.cursor)
            IN IF ~got.data.success
               THEN Outcome(d, Response(HTTP_BAD_REQUEST, r.origin,
                        [error |-> JStr("Invalid identifiers parameter - no valid identifiers found")]),
                        got.log)
               ELSE Outcome(d, Response(HTTP_OK, r.origin, got.data), got.log)

get_merchants(d, r) ==
    LET rejected == handle_common_request_validation(r, "GET")
    IN IF ~IsNone(rejected) THEN Outcome(d, rejected, <<>>)
       ELSE get_merchants_handler(d, r, MERCHANTS_COLLECTION)

get_pending_merchants(d, r) ==
    LET rejected == handle_common_request_validation(r, "GET")
    IN IF ~IsNone(rejected) THEN Outcome(d, rejected, <<>>)
       ELSE get_merchants_handler(d, r, PENDING_MERCHANTS_COLLECTION)

-----------------------------------------------------------------------------
(* routes/landing_site_contact_form_lead.py: the read handler *)

\* doc.to_dict() of a lead with the timestamp as text and the document id as 'id'.
contact_response(coll, id) ==
    [f \in DOMAIN coll[id] \cup {"id"} |->
        IF f = "id" THEN id
        ELSE IF f = "datetime" THEN IsoFormat(coll[id].datetime)
        ELSE coll[id][f]]

\* contacts_ref.stream(): every document, in the default order of the ids.
stream_all(coll) == SelectSeq(SortedIds, LAMBDA id : id \in DOMAIN coll)

get_landing_site_contact_form_lead(d, r) ==
    LET c == LANDING_SITE_CONTACT_FORM_LEAD_COLLECTION
        coll == d[c]
        answer(ids, log) ==
            Outcome(d, Response(HTTP_OK, r.origin,
                        [ success |-> TRUE,
                          contacts |-> [i \in 1..Len(ids) |-> contact_response(coll, ids[i])],
                          count |-> Len(ids),
                          filtered |-> has_identifiers(r.identifiers) ]), log)
    IN IF r.method = "OPTIONS"
       THEN Outcome(d, Response(HTTP_NO_CONTENT, r.origin, JStr("")), <<>>)
       ELSE IF ~is_origin_allowed(r.origin)
       THEN Outcome(d, Response(HTTP_FORBIDDEN, r.origin,
                                [error |-> JStr("Origin not allowed")]), <<>>)
       ELSE IF r.method # "GET"
       THEN Outcome(d, Response(HTTP_METHOD_NOT_ALLOWED, r.origin,
                                [error |-> JStr("Only GET method is allowed")]), <<>>)
       ELSE IF has_identifiers(r.identifiers)
       THEN LET ids == identifier_list(r.identifiers)
            IN IF Len(ids) > 0
               THEN answer(fetch_by_identifier(coll, ids),
                           [i \in 1..Len(ids) |-> OpGet(c, ids[i], TRUE)])
               ELSE Outcome(d, Response(HTTP_BAD_REQUEST, r.origin,
                        [error |-> JStr("Invalid identifiers parameter - no valid identifiers found")]),
                        <<>>)
       ELSE answer(SelectSeq(stream_all(coll), LAMBDA x : DOMAIN coll[x] # {}),
                   <<OpQuery(c)>>)

-----------------------------------------------------------------------------
(* routes/merchant.py: approve_pending_merchant, deny_pending_merchant *)

approve_merchant_transaction_torn(d, merchant_id, data, commits) ==
    [d EXCEPT ![MERCHANTS_COLLECTION] = DocSet(@, merchant_id, data),
              ![PENDING_MERCHANTS_COLLECTION] =
                  IF commits THEN DocDelete(@, merchant_id) ELSE @]

\* The store after the transaction: the set into merchants and the delete from
\* pending-merchants commit together, or the transaction raises and neither does.
approve_merchant_transaction(d, merchant_id, data, commits) ==
    IF commits
    THEN [d EXCEPT ![MERCHANTS_COLLECTION] = DocSet(@, merchant_id, data),
                   ![PENDING_MERCHANTS_COLLECTION] = DocDelete(@, merchant_id)]
    ELSE d

MoverState(d) == [db |-> d, done |-> <<>>, failed |-> <<>>, log |-> <<>>]

mover_failed(st, merchant_id, text, log) ==
    [st EXCEPT !.failed = Append(@, [merchant_id |-> merchant_id, error |-> text]),
               !.log = @ \o log]

approve_fetched_unchecked(st, merchant_id, exists, data, fault) ==
    [ db     |-> approve_merchant_transaction(st.db, merchant_id, data, TRUE),
      done   |-> Append(st.done,
                    [ merchant_id |-> merchant_id,
                      message |-> "Merchant " \o merchant_id \o " approved successfully" ]),
      failed |-> st.failed,
      log    |-> st.log \o <<OpGet(PENDING_MERCHANTS_COLLECTION, merchant_id, TRUE),
                             OpTxn(PENDING_MERCHANTS_COLLECTION, merchant_id, TRUE)>> ]

\* What approve does once pending_doc is fetched: exists and data are the
\* snapshot's, the transaction runs against the store as it is now.
approve_fetched(st, merchant_id, exists, data, fault) ==
    LET P == PENDING_MERCHANTS_COLLECTION
    IN IF ~exists
       THEN mover_failed(st, merchant_id,
                "Pending merchant with ID " \o merchant_id \o " not found",
                <<OpGet(P, merchant_id, TRUE)>>)
       ELSE IF DOMAIN data = {}
       THEN mover_failed(st, merchant_id, "Invalid merchant data",
                         <<OpGet(P, merchant_id, TRUE)>>)
       ELSE IF fault = "write"
       THEN [ mover_failed(st, merchant_id, ErrorText("transaction"),
                           <<OpGet(P, merchant_id, TRUE), OpTxn(P, merchant_id, FALSE)>>)
              EXCEPT !.db = approve_merchant_transaction(st.db, merchant_id, data, FALSE) ]
       ELSE [ db     |-> approve_merchant_transaction(st.db, merchant_id, data, TRUE),
              done   |-> Append(st.done,
                            [ merchant_id |-> merchant_id,
                              message |-> "Merchant " \o merchant_id
                                              \o " approved successfully" ]),
              failed |-> st.failed,
              log    |-> st.log \o <<OpGet(P, merchant_id, TRUE),
                                     OpTxn(P, merchant_id, TRUE)>> ]

\* One iteration of the loop of approve_pending_merchant.
approve_one(st, merchant_id, fault) ==
    LET P == PENDING_MERCHANTS_COLLECTION
    IN IF fault = "get"
       THEN mover_failed(st, merchant_id, ErrorText("get"), <<OpGet(P, merchant_id, FALSE)>>)
       ELSE approve_fetched(st, merchant_id, merchant_id \in DOMAIN st.db[P],
                            DictGet(st.db[P], merchant_id, <<>>), fault)

deny_fetched_both(st, merchant_id, exists, fault) ==
    [ db     |-> [st.db EXCEPT ![PENDING_MERCHANTS_COLLECTION] = DocDelete(@, merchant_id),
                               ![MERCHANTS_COLLECTION] = DocDelete(@, merchant_id)],
      done   |-> IF exists
                 THEN Append(st.done,
                        [ merchant_id |-> merchant_id,
                          message |-> "Merchant " \o merchant_id
                                          \o " denied and removed successfully" ])
                 ELSE st.done,
      failed |-> IF exists THEN st.failed
                 ELSE Append(st.failed,
                        [ merchant_id |-> merchant_id,
                          error |-> "Pending merchant with ID " \o merchant_id \o " not found" ]),
      log    |-> st.log ]

\* What deny does once pending_doc is fetched.
deny_fetched(st, merchant_id, exists, fault) ==
    LET P == PENDING_MERCHANTS_COLLECTION
    IN IF ~exists
       THEN mover_failed(st, merchant_id,
                "Pending merchant with ID " \o merchant_id \o " not found",
                <<OpGet(P, merchant_id, TRUE)>>)
       ELSE IF fault = "write"
       THEN mover_failed(st, merchant_id, ErrorText("delete"),
                         <<OpGet(P, merchant_id, TRUE), OpDelete(P, merchant_id, FALSE)>>)
       ELSE [ db     |-> [st.db EXCEPT ![P] = DocDelete(@, merchant_id)],
              done   |-> Append(st.done,
                            [ merchant_id |-> merchant_id,
                              message |-> "Merchant " \o merchant_id
                                              \o " denied and removed successfully" ]),
              failed |-> st.failed,
              log    |-> st.log \o <<OpGet(P, merchant_id, TRUE),
                                     OpDelete(P, merchant_id, TRUE)>> ]

\* One iteration of the loop of deny_pending_merchant.
deny_one(st, merchant_id, fault) ==
    LET P == PENDING_MERCHANTS_COLLECTION
    IN IF fault = "get"
       THEN mover_failed(st, merchant_id, ErrorText("get"), <<OpGet(P, merchant_id, FALSE)>>)
       ELSE deny_fetched(st, merchant_id, merchant_id \in DOMAIN st.db[P], fault)

RECURSIVE mover_loop(_, _, _, _, _)
mover_loop(st, action, merchant_ids, faults, i) ==
    IF i > Len(merchant_ids) THEN st
    ELSE mover_loop(IF action = "approved"
                    THEN approve_one(st, merchant_ids[i], faults[i])
                    ELSE deny_one(st, merchant_ids[i], faults[i]),
                    action, merchant_ids, faults, i + 1)

mover_response_lenient(st, action, merchant_ids, origin) ==
    Response(IF Len(st.done) > 0 THEN HTTP_OK ELSE HTTP_MULTI_STATUS, origin,
             [ success |-> Len(st.done) > 0,
               total_merchants |-> Len(merchant_ids),
               succeeded |-> Len(st.done),
               failed_count |-> Len(st.failed),
               done_merchants |-> st.done,
               failed_merchants |-> IF Len(st.failed) > 0 THEN JList(st.failed) ELSE JNone,
               action |-> action ])

\* The response of approve / deny for the results of the loop.  succeeded,
\* failed_count and done_merchants are approved_successfully, failed_approvals
\* and approved_merchants of approve, and the denied_ fields of deny.
mover_response(st, action, merchant_ids, origin) ==
    LET n_failed == Len(st.failed)
        outcome == [ success |-> n_failed = 0,
                     total_merchants |-> Len(merchant_ids),
                     succeeded |-> Len(st.done),
                     failed_count |-> n_failed,
                     done_merchants |-> st.done,
                     failed_merchants |-> IF n_failed > 0 THEN JList(st.failed) ELSE JNone,
                     action |-> action ]
    IN Response(IF n_failed = 0 THEN HTTP_OK ELSE HTTP_MULTI_STATUS, origin, outcome)

\* The body checks of approve / deny: the 400 response, or JNone.
mover_body_check(r) ==
    LET data == r.body
        bad(text) == Response(HTTP_BAD_REQUEST, r.origin, [error |-> JStr(text)])
    IN IF DOMAIN data = {} \/ "merchant_ids" \notin DOMAIN data
       THEN bad("Missing required field: merchant_ids")
       ELSE IF ~IsList(data.merchant_ids) \/ Len(data.merchant_ids.list) = 0
       THEN bad("merchant_ids must be a non-empty array of strings")
       ELSE IF \E i \in 1..Len(data.merchant_ids.list) : Strip(data.merchant_ids.list[i]) = ""
       THEN bad("All merchant_ids must be non-empty strings")
       ELSE JNone

mover_handler(d, r, action) ==
    LET rejected == handle_common_request_validation(r, "POST")
        refused == mover_body_check(r)
    IN IF ~IsNone(rejected) THEN Outcome(d, rejected, <<>>)
       ELSE IF ~IsNone(refused) THEN Outcome(d, refused, <<>>)
       ELSE LET merchant_ids == r.body.merchant_ids.list
                st == mover_loop(MoverState(d), action, merchant_ids, r.faults, 1)
            IN Outcome(st.db, mover_response(st, action, merchant_ids, r.origin), st.log)

approve_pending_merchant(d, r) == mover_handler(d, r, "approved")

deny_pending_merchant(d, r) == mover_handler(d, r, "denied")

-----------------------------------------------------------------------------
(* routes/openai.py: generate_social_media_post, generate_chinese_social_media_post *)

MIN_RATING == 1
MAX_RATING == 10
MAX_DISHES == 10

\* One call on the client of the generative-model API api.
OpModel(api, ok) == [op |-> "completion", coll |-> api, id |-> "", ok |-> ok]

social_media_error(status, origin, text, error_code) ==
    Response(status, origin,
             [success |-> FALSE, error |-> JStr(text), error_code |-> error_code])

\* The check of dish i (1-based) of the validation loop: the text and code of
\* its first failure, or JNone.
dish_error(dish, i) ==
    LET nth == "Dish " \o ToString(i)
        missing == SelectSeq(<<"name", "rating", "review">>, LAMBDA f : f \notin DOMAIN dish)
    IN IF IsStr(dish)
       THEN [text |-> nth \o " must be an object", code |-> "INVALID_DISH_FORMAT"]
       ELSE IF Len(missing) > 0
       THEN [text |-> nth \o " missing required field: " \o missing[1],
             code |-> "MISSING_DISH_FIELD"]
       ELSE IF ~IsInt(dish.rating) \/ dish.rating.int < MIN_RATING \/ dish.rating.int > MAX_RATING
       THEN [text |-> nth \o " rating must be an integer between " \o ToString(MIN_RATING)
                          \o " and " \o ToString(MAX_RATING),
             code |-> "INVALID_RATING"]
       ELSE JNone

\* The 400 response of the first failing check, or JNone when the body passes.
validate_social_media_request(request_data, origin) ==
    LET bad(text, code) == social_media_error(HTTP_BAD_REQUEST, origin, text, code)
    IN IF DOMAIN request_data = {} THEN bad("Request body is required", "MISSING_BODY")
       ELSE IF "restaurant_name" \notin DOMAIN request_data
       THEN bad("restaurant_name is required", "MISSING_RESTAURANT_NAME")
       ELSE IF "dishes" \notin DOMAIN request_data \/ ~IsList(request_data.dishes)
       THEN bad("dishes array is required", "MISSING_DISHES")
       ELSE IF Len(request_data.dishes.list) = 0
       THEN bad("At least one dish is required", "EMPTY_DISHES")
       ELSE IF Len(request_data.dishes.list) > MAX_DISHES
       THEN bad("Maximum " \o ToString(MAX_DISHES) \o " dishes allowed", "TOO_MANY_DISHES")
       ELSE
         LET dishes == request_data.dishes.list
             failing == SelectSeq([i \in 1..Len(dishes) |-> i],
                                  LAMBDA i : ~IsNone(dish_error(dishes[i], i)))
         IN IF Len(failing) > 0
            THEN bad(dish_error(dishes[failing[1]], failing[1]).text,
                     dish_error(dishes[failing[1]], failing[1]).code)
            ELSE IF "dining_experience" \notin DOMAIN request_data
            THEN bad("dining_experience is required", "MISSING_DINING_EXPERIENCE")
            ELSE IF IsStr(request_data.dining_experience)
            THEN bad("dining_experience must be a dictionary", "INVALID_DINING_EXPERIENCE")
            ELSE JNone

\* The texts the model API returns in the model, and clean_social_media_post
\* on them: escapes resolved, markdown markers removed, lines stripped and
\* joined with "\n \n".
Completions == { "**Great** ramen\\n#ramen #tokyo", "Cozy spot." }

clean_social_media_post(raw_post) ==
    CASE raw_post = "**Great** ramen\\n#ramen #tokyo" -> "Great ramen\n \n#ramen #tokyo"
      [] raw_post = "Cozy spot." -> "Cozy spot."

\* len(social_media_post) and the words of it that start with '#'.
post_measures(social_media_post) ==
    CASE social_media_post = "Great ramen\n \n#ramen #tokyo"
           -> [character_count |-> 27, hashtags |-> <<"#ramen", "#tokyo">>]
      [] social_media_post = "Cozy spot."
           -> [character_count |-> 10, hashtags |-> <<>>]

\* The two handlers, which differ in the API they call and in its name in the
\* message about the missing key.
generate_post(d, r, api) ==
    IF r.method = "OPTIONS" THEN Outcome(d, Response(HTTP_OK, r.origin, JStr("")), <<>>)
    ELSE IF r.method # "POST"
    THEN Outcome(d, social_media_error(HTTP_METHOD_NOT_ALLOWED, r.origin,
                        "Method " \o r.method \o " not allowed. Use POST.",
                        "METHOD_NOT_ALLOWED"), <<>>)
    ELSE IF ~is_origin_allowed(r.origin)
    THEN Outcome(d, social_media_error(HTTP_BAD_REQUEST, r.origin, "Unauthorized origin",
                                       "UNAUTHORIZED_ORIGIN"), <<>>)
    ELSE LET validation_error == validate_social_media_request(r.body, r.origin)
         IN IF ~IsNone(validation_error) THEN Outcome(d, validation_error, <<>>)
            ELSE IF ~r.api_key
            THEN Outcome(d, social_media_error(HTTP_INTERNAL_SERVER_ERROR, r.origin,
                                api \o " API key not configured", "MISSING_API_KEY"), <<>>)
            ELSE IF r.faults = <<"completion">>
            THEN Outcome(d, social_media_error(HTTP_INTERNAL_SERVER_ERROR, r.origin,
                                "Internal server error: " \o ErrorText("completion"),
                                "INTERNAL_ERROR"),
                         <<OpModel(api, FALSE)>>)
            ELSE LET social_media_post == clean_social_media_post(r.completion)
                 IN Outcome(d, Response(HTTP_OK, r.origin,
                               [ success |-> TRUE,
                                 social_media_post |-> social_media_post,
                                 character_count |->
                                     post_measures(social_media_post).character_count,
                                 hashtags |-> post_measures(social_media_post).hashtags ]),
                            <<OpModel(api, TRUE)>>)

generate_social_media_post(d, r) == generate_post(d, r, "OpenAI")

generate_chinese_social_media_post(d, r) == generate_post(d, r, "DeepSeek")

-----------------------------------------------------------------------------
(* The requests of the model *)

\* The first n items of the batch that repeats the pattern.
Cycle(pattern, n) == [i \in 1..n |-> pattern[((i - 1) % Len(pattern)) + 1]]

LeadA == [name |-> "Ann", email |-> "a@b.com", message |-> "hi"]
LeadA2 == [name |-> "Ann B", email |-> " A@B.com", message |-> "bye", phone |-> "555"]
LeadB == [name |-> "Ann", email |-> "a@b.com", message |-> "bye", company |-> "Acme"]
LeadC == [name |-> "Cy", email |-> "c@d.com", message |-> "hi"]
LeadNoEmail == [name |-> "Ann", message |-> "hi"]
LeadEmpty == [name |-> "", email |-> "a@b.com", message |-> ""]

\* Batches of contacts: the same key again and again, two keys, an invalid
\* item among valid ones, an invalid item first.
LeadPatterns ==
    { <<LeadA, LeadA2, LeadA>>, <<LeadC, LeadA>>,
      <<LeadA, LeadNoEmail, LeadC>>, <<LeadEmpty, LeadA>> }

LeadItems == { LeadA, LeadA2, LeadC, LeadNoEmail, LeadEmpty }

ShopA == [name |-> "Shop", email |-> "a@b.com", address |-> "1 Rd",
          description |-> "d", industry |-> "food"]
ShopA2 == [name |-> "Shop B", email |-> " A@B.com", address |-> "2 Rd",
           description |-> "d", industry |-> "food", phone |-> "555"]
ShopC == [name |-> "Cafe", email |-> "c@d.com", address |-> "3 Rd",
          description |-> "d", industry |-> "food"]
ShopNoAddress == [name |-> "Shop", email |-> "a@b.com",
                  description |-> "d", industry |-> "food"]
ShopEmpty == [name |-> "", email |-> "c@d.com", address |-> "3 Rd",
              description |-> "d", industry |-> ""]

MerchantPatterns == { <<ShopA, ShopA2, ShopC>>, <<ShopA, ShopNoAddress, ShopC>> }

MerchantItems == { ShopA, ShopA2, ShopC, ShopNoAddress, ShopEmpty }

\* A request body: a bare item, an object with the batch field holding up to
\* MaxBatch items, no body, or a batch field that is no array.
Bodies(items, patterns, field) ==
    items
    \cup { [f \in {field} |-> JList(Cycle(p, n))] : p \in patterns, n \in 0..MaxBatch }
    \cup { <<>>, [f \in {field} |-> JStr("not an array")] }

\* The items a body submits (none when it is malformed).
ItemsOf(body, field) ==
    IF DOMAIN body = {} THEN <<>>
    ELSE IF field \in DOMAIN body
    THEN (IF IsList(body[field]) THEN body[field].list ELSE <<>>)
    ELSE <<body>>

\* An item has every required field of the collection, none of them empty.
ItemValid(item, c) ==
    \A i \in 1..Len(COLLECTION_REQUIRED_FIELDS(c)) :
        LET f == COLLECTION_REQUIRED_FIELDS(c)[i]
        IN f \in DOMAIN item /\ item[f] # ""

BodyValid(body, field, c) ==
    /\ Len(ItemsOf(body, field)) > 0
    /\ \A i \in 1..Len(ItemsOf(body, field)) : ItemValid(ItemsOf(body, field)[i], c)

\* What the firestore calls of a request do, one outcome per item: no call
\* raises, the get or the set of one item raises, or that of every item.  A
\* request rejected before any call has nothing to choose.
FaultPlans(body, field, c) ==
    LET n == Len(ItemsOf(body, field))
    IN IF BodyValid(body, field, c)
       THEN { [i \in 1..n |-> "none"] }
            \cup { [i \in 1..n |-> IF i = j THEN k ELSE "none"] :
                       j \in 1..n, k \in {"get", "set"} }
            \cup { [i \in 1..n |-> k] : k \in {"get", "set"} }
       ELSE { [i \in 1..n |-> "none"] }

StoreRequest(h, body, faults, now) ==
    [handler |-> h, method |-> "POST", origin |-> NoOrigin, body |-> body,
     faults |-> faults, now |-> now]

\* The key a contact store addresses.
ContactKey(c, item) ==
    IF c = CONTACTS_COLLECTION THEN item.email ELSE email_to_short_id(item.email)

\* hist after a request: the message of every item that is acknowledged (valid
\* batch, no raising call) is appended to the history of its key; for a
\* merchant, that has no message, its name.
RECURSIVE Acknowledge(_, _, _, _, _)
Acknowledge(h, c, items, faults, i) ==
    IF i > Len(items) THEN h
    ELSE LET k == ContactKey(c, items[i])
             h2 == IF faults[i] # "none" THEN h
                   ELSE [x \in DOMAIN h \cup {k} |->
                            IF x = k THEN DictGet(h, k, <<>>)
                                             \o <<DictGet(items[i], "message", items[i].name)>>
                            ELSE h[x]]
         IN Acknowledge(h2, c, items, faults, i + 1)

NoRequest == [handler |-> "none"]
NoResponse == [status |-> 0]
Idle == req = NoRequest

Init ==
    /\ db = [c \in Collections |-> <<>>]
    /\ req = NoRequest
    /\ resp = NoResponse
    /\ oplog = <<>>
    /\ hist = [c \in Collections |-> <<>>]
    /\ nops = 0
    /\ pages = <<>>
    /\ procs = <<>>

\* Requests are handled one after another: a writing request r arrives when
\* the previous response is out, and is handled with outcome out.
Handled(r, out) ==
    /\ Idle
    /\ nops < MaxOps
    /\ nops' = nops + 1
    /\ req' = r
    /\ db' = out.db
    /\ resp' = out.resp
    /\ oplog' = out.log
    /\ pages' = <<>>

\* A reading request r is handled with outcome out.
HandledRead(r, out) ==
    /\ Idle
    /\ req' = r
    /\ db' = out.db
    /\ resp' = out.resp
    /\ oplog' = out.log
    /\ UNCHANGED <<nops, hist, procs>>

\* The response is out and the function instance is gone.
Reply ==
    /\ ~Idle
    /\ req' = NoRequest
    /\ resp' = NoResponse
    /\ oplog' = <<>>
    /\ UNCHANGED <<db, hist, nops, pages, procs>>

HistAfter(c, body, faults) ==
    LET field == IF c \in {MERCHANTS_COLLECTION, PENDING_MERCHANTS_COLLECTION}
                 THEN "merchants" ELSE "contacts"
    IN IF BodyValid(body, field, c)
       THEN [hist EXCEPT ![c] = Acknowledge(@, c, ItemsOf(body, field), faults, 1)]
       ELSE hist

StoreLead ==
    \E body \in Bodies(LeadItems, LeadPatterns, "contacts") :
      \E faults \in FaultPlans(body, "contacts", LANDING_SITE_CONTACT_FORM_LEAD_COLLECTION) :
        LET r == StoreRequest("store_landing_site_contact_form_lead", body, faults, nops + 1)
        IN /\ Handled(r, store_landing_site_contact_form_lead(db, r))
           /\ hist' = HistAfter(LANDING_SITE_CONTACT_FORM_LEAD_COLLECTION, body, faults)
           /\ UNCHANGED procs

StoreContact ==
    \E body \in Bodies(LeadItems, LeadPatterns, "contacts") :
      \E faults \in FaultPlans(body, "contacts", CONTACTS_COLLECTION) :
        LET r == StoreRequest("store_contact", body, faults, nops + 1)
        IN /\ Handled(r, store_contact(db, r))
           /\ hist' = HistAfter(CONTACTS_COLLECTION, body, faults)
           /\ UNCHANGED procs

StoreMerchant ==
    \E body \in Bodies(MerchantItems, MerchantPatterns, "merchants") :
      \E faults \in FaultPlans(body, "merchants", MERCHANTS_COLLECTION) :
        LET r == StoreRequest("store_merchant", body, faults, nops + 1)
        IN /\ Handled(r, store_merchant(db, r))
           /\ hist' = HistAfter(MERCHANTS_COLLECTION, body, faults)
           /\ UNCHANGED procs

StorePendingMerchant ==
    \E body \in Bodies(MerchantItems, MerchantPatterns, "merchants") :
      \E faults \in FaultPlans(body, "merchants", PENDING_MERCHANTS_COLLECTION) :
        LET r == StoreRequest("store_pending_merchant", body, faults, nops + 1)
        IN /\ Handled(r, store_pending_merchant(db, r))
           /\ hist' = HistAfter(PENDING_MERCHANTS_COLLECTION, body, faults)
           /\ UNCHANGED procs

Next == StoreLead \/ StoreContact \/ StoreMerchant \/ StorePendingMerchant \/ Reply

Spec == Init /\ [][Next]_vars

-----------------------------------------------------------------------------
(* The merchant collections: stores, reads and a client that pages through a
   collection *)

ShopE == [name |-> "Eatery", email |-> "e@f.com", address |-> "5 Rd",
          description |-> "d", industry |-> "food"]
ShopG == [name |-> "Grill", email |-> "g@h.com", address |-> "7 Rd",
          description |-> "d", industry |-> "food"]

PageShopPatterns == { <<ShopA, ShopC, ShopE, ShopG>>, <<ShopG, ShopE, ShopC>>, <<ShopC, ShopA>> }

PageShopBodies ==
    { [merchants |-> JList(Cycle(p, n))] : p \in PageShopPatterns, n \in 1..MaxBatch }

NoFaults(n) == [i \in 1..n |-> "none"]

MoverRequest(h, ids, faults) ==
    [handler |-> h, method |-> "POST", origin |-> NoOrigin,
     body |-> [merchant_ids |-> JList(ids)], faults |-> faults]

ReadRequest(h, identifiers, limit, cursor) ==
    [handler |-> h, method |-> "GET", origin |-> NoOrigin,
     identifiers |-> identifiers, limit |-> limit, cursor |-> cursor]

PageLimits == { JNone, JStr("2"), JStr("0"), JStr("abc") }

PageCursors == { JNone, JStr("nope") } \cup { JStr(ShortIds[i]) : i \in 1..2 }

ReadHandlers == {"get_merchants", "get_pending_merchants"}

ReadCollection(h) ==
    IF h = "get_merchants" THEN MERCHANTS_COLLECTION ELSE PENDING_MERCHANTS_COLLECTION

ReadOutcome(d, r) ==
    IF r.handler = "get_merchants" THEN get_merchants(d, r) ELSE get_pending_merchants(d, r)

PStoreMerchant ==
    \E body \in PageShopBodies :
        LET r == StoreRequest("store_merchant", body,
                              NoFaults(Len(body.merchants.list)), nops + 1)
        IN /\ Handled(r, store_merchant(db, r))
           /\ hist' = HistAfter(MERCHANTS_COLLECTION, body, r.faults)
           /\ UNCHANGED procs

PStorePendingMerchant ==
    \E body \in PageShopBodies :
        LET r == StoreRequest("store_pending_merchant", body,
                              NoFaults(Len(body.merchants.list)), nops + 1)
        IN /\ Handled(r, store_pending_merchant(db, r))
           /\ hist' = HistAfter(PENDING_MERCHANTS_COLLECTION, body, r.faults)
           /\ UNCHANGED procs

\* An unfiltered read with any limit and cursor, of a client that is not paging.
PGet ==
    /\ pages = <<>>
    /\ \E h \in ReadHandlers, limit \in PageLimits, cursor \in PageCursors :
        LET r == ReadRequest(h, JNone, limit, cursor)
        IN /\ HandledRead(r, ReadOutcome(db, r))
           /\ pages' = <<>>

\* The client asks for the first page of a collection with a limit.
PageFirst ==
    \E h \in ReadHandlers, limit \in {JStr("1"), JStr("2"), JStr("3")} :
        LET r == ReadRequest(h, JNone, limit, JNone)
            out == ReadOutcome(db, r)
        IN /\ HandledRead(r, out)
           /\ pages' = <<[handler |-> h, limit |-> limit, data |-> out.resp.body]>>

\* The client asks for the page after the last one, with its next_cursor.
PageNext ==
    /\ pages # <<>>
    /\ pages[Len(pages)].data.pagination.next_cursor # PyNone
    /\ LET last == pages[Len(pages)]
           r == ReadRequest(last.handler, JNone, last.limit,
                            JStr(last.data.pagination.next_cursor))
           out == ReadOutcome(db, r)
       IN /\ HandledRead(r, out)
          /\ pages' = Append(pages, [handler |-> last.handler, limit |-> last.limit,
                                     data |-> out.resp.body])

NextPages ==
    \/ PStoreMerchant \/ PStorePendingMerchant
    \/ PGet \/ PageFirst \/ PageNext \/ Reply

SpecPages == Init /\ [][NextPages]_vars

-----------------------------------------------------------------------------
(* Reads of merchant collections of about a hundred documents *)

\* The document of the i-th merchant of a large collection, stored at clock
\* reading t under the id BulkId(i).
BulkDoc(i, t) ==
    merchant_data([name |-> "Shop", email |-> BulkId(i) \o "@shops.com", address |-> "1 Rd",
                   description |-> "d", industry |-> "food"], t)

\* A collection of n merchants: stored in one batch (one timestamp for all), or
\* over three clock readings.
BulkCollection(n, clock) ==
    [id \in { BulkId(i) : i \in 1..n } |->
        LET i == CHOOSE j \in 1..n : BulkId(j) = id
        IN BulkDoc(i, IF clock = "batch" THEN 1 ELSE (i % 3) + 1)]

BulkSizes == (MAX_LIMIT - 1)..BulkCount

CapLimits == { JNone, JStr("99"), JStr("100"), JStr("101"), JStr("500") }

CapCursors == { JNone, JStr(BulkId(2)) }

InitCap ==
    /\ \E n \in BulkSizes, clock \in {"batch", "spread"} :
         db = [c \in Collections |->
                 IF c \in {MERCHANTS_COLLECTION, PENDING_MERCHANTS_COLLECTION}
                 THEN BulkCollection(n, clock) ELSE <<>>]
    /\ req = NoRequest
    /\ resp = NoResponse
    /\ oplog = <<>>
    /\ hist = [c \in Collections |-> <<>>]
    /\ nops = 0
    /\ pages = <<>>
    /\ procs = <<>>

CapGet ==
    \E h \in ReadHandlers, limit \in CapLimits, cursor \in CapCursors :
        LET r == ReadRequest(h, JNone, limit, cursor)
        IN /\ HandledRead(r, ReadOutcome(db, r))
           /\ UNCHANGED pages

NextCap == CapGet \/ Reply

SpecCap == InitCap /\ [][NextCap]_vars

-----------------------------------------------------------------------------
(* Reads by identifier of the leads and of the merchant collections *)

FilterLeadBodies == { [contacts |-> JList(Cycle(<<LeadA, LeadC>>, n))] : n \in 1..MaxBatch }

FilterShopBodies ==
    { [merchants |-> JList(Cycle(<<ShopA, ShopC, ShopG>>, n))] : n \in 1..MaxBatch }

\* The identifiers parameter: a repeated key with a missing and a padded one,
\* one key, an empty segment before a key, blanks only, the empty string.
FilterIdentifiers ==
    { [segments |-> <<"0QVg0Xa0x0B", "no-such-key", " -5jUStdQGpW ", "0QVg0Xa0x0B">>],
      [segments |-> <<"-5jUStdQGpW">>],
      [segments |-> <<"", "7N5GeSPApvB">>],
      [segments |-> <<" ", "">>],
      [segments |-> <<"">>] }

FilterLimits == { JNone, JStr("1"), JStr("0"), JStr("abc") }

FilterCursors == { JNone, JStr("-5jUStdQGpW") }

AllReadHandlers == ReadHandlers \cup {"get_landing_site_contact_form_lead"}

AnyReadCollection(h) ==
    IF h = "get_landing_site_contact_form_lead"
    THEN LANDING_SITE_CONTACT_FORM_LEAD_COLLECTION
    ELSE ReadCollection(h)

AnyReadOutcome(d, r) ==
    IF r.handler = "get_landing_site_contact_form_lead"
    THEN get_landing_site_contact_form_lead(d, r)
    ELSE ReadOutcome(d, r)

FStoreLead ==
    \E body \in FilterLeadBodies :
        LET faults == NoFaults(Len(body.contacts.list))
            r == StoreRequest("store_landing_site_contact_form_lead", body, faults, nops + 1)
        IN /\ Handled(r, store_landing_site_contact_form_lead(db, r))
           /\ hist' = HistAfter(LANDING_SITE_CONTACT_FORM_LEAD_COLLECTION, body, faults)
           /\ UNCHANGED procs

FStoreMerchant ==
    \E body \in FilterShopBodies :
        LET r == StoreRequest("store_merchant", body,
                              NoFaults(Len(body.merchants.list)), nops + 1)
        IN /\ Handled(r, store_merchant(db, r))
           /\ hist' = HistAfter(MERCHANTS_COLLECTION, body, r.faults)
           /\ UNCHANGED procs

FStorePendingMerchant ==
    \E body \in FilterShopBodies :
        LET r == StoreRequest("store_pending_merchant", body,
                              NoFaults(Len(body.merchants.list)), nops + 1)
        IN /\ Handled(r, store_pending_merchant(db, r))
           /\ hist' = HistAfter(PENDING_MERCHANTS_COLLECTION, body, r.faults)
           /\ UNCHANGED procs

\* A read with an identifiers parameter, and any limit and cursor next to it.
FGet ==
    \E h \in AllReadHandlers, identifiers \in FilterIdentifiers,
       limit \in FilterLimits, cursor \in FilterCursors :
        LET r == ReadRequest(h, identifiers, limit, cursor)
        IN /\ HandledRead(r, AnyReadOutcome(db, r))
           /\ UNCHANGED pages

NextFilter == FStoreLead \/ FStoreMerchant \/ FStorePendingMerchant \/ FGet \/ Reply

SpecFilter == Init /\ [][NextFilter]_vars

-----------------------------------------------------------------------------
(* Approvals and denials of pending merchants, one request after another *)

MoverShopBodies ==
    { [merchants |-> JList(Cycle(<<ShopA, ShopC>>, n))] : n \in 1..MaxBatch }

\* The merchant_ids of a request: one key, two keys, a key that is never
\* stored, a key listed twice.
MoverIds ==
    { <<"-5jUStdQGpW">>, <<"0QVg0Xa0x0B", "-5jUStdQGpW">>, <<"7N5GeSPApvB">>,
      <<"-5jUStdQGpW", "-5jUStdQGpW">> }

\* What the firestore calls of an approve / deny request do, one outcome per
\* key: no call raises, or the get or the write of one key does.
MoverFaultPlans(n) ==
    { NoFaults(n) }
    \cup { [i \in 1..n |-> IF i = j THEN k ELSE "none"] : j \in 1..n, k \in {"get", "write"} }

MStorePendingMerchant ==
    \E body \in MoverShopBodies :
        LET r == StoreRequest("store_pending_merchant", body,
                              NoFaults(Len(body.merchants.list)), nops + 1)
        IN /\ Handled(r, store_pending_merchant(db, r))
           /\ hist' = HistAfter(PENDING_MERCHANTS_COLLECTION, body, r.faults)
           /\ UNCHANGED procs

MStoreMerchant ==
    \E body \in MoverShopBodies :
        LET r == StoreRequest("store_merchant", body,
                              NoFaults(Len(body.merchants.list)), nops + 1)
        IN /\ Handled(r, store_merchant(db, r))
           /\ hist' = HistAfter(MERCHANTS_COLLECTION, body, r.faults)
           /\ UNCHANGED procs

\* The store after the first n items of pattern were stored into collection c
\* in one request at clock reading 0 (n = 0: nothing was stored).
StoredBefore(d, h, pattern, n) ==
    IF n = 0 THEN d
    ELSE LET r == StoreRequest(h, [merchants |-> JList(Cycle(pattern, n))], NoFaults(n), 0)
         IN IF h = "store_merchant" THEN store_merchant(d, r).db
            ELSE store_pending_merchant(d, r).db

\* Approvals and denials find the collections as earlier store requests left
\* them: up to MaxBatch merchants, up to MaxBatch pending merchants.
InitMove ==
    /\ \E m \in 0..MaxBatch, p \in 0..MaxBatch :
         db = StoredBefore(StoredBefore([c \in Collections |-> <<>>], "store_merchant",
                                        <<ShopA2, ShopC>>, m),
                           "store_pending_merchant", <<ShopA, ShopC>>, p)
    /\ req = NoRequest
    /\ resp = NoResponse
    /\ oplog = <<>>
    /\ hist = [c \in Collections |-> <<>>]
    /\ nops = 0
    /\ pages = <<>>
    /\ procs = <<>>

MApprove ==
    \E ids \in MoverIds : \E faults \in MoverFaultPlans(Len(ids)) :
        LET r == MoverRequest("approve_pending_merchant", ids, faults)
        IN /\ Handled(r, approve_pending_merchant(db, r))
           /\ UNCHANGED <<hist, procs>>

MDeny ==
    \E ids \in MoverIds : \E faults \in MoverFaultPlans(Len(ids)) :
        LET r == MoverRequest("deny_pending_merchant", ids, faults)
        IN /\ Handled(r, deny_pending_merchant(db, r))
           /\ UNCHANGED <<hist, procs>>

NextMove == MStorePendingMerchant \/ MStoreMerchant \/ MApprove \/ MDeny \/ Reply

SpecMove == InitMove /\ [][NextMove]_vars

-----------------------------------------------------------------------------
(* A client that pages through a merchant collection that no longer changes:
   the stores are answered before the first page is asked for, and the client
   asks for the next page as long as the last one names a cursor *)

\* The merchants collection holds what an earlier store request left, up to
\* MaxBatch documents with one timestamp.
InitClient ==
    /\ \E pattern \in PageShopPatterns, n \in 0..MaxBatch :
         db = StoredBefore([c \in Collections |-> <<>>], "store_merchant", pattern, n)
    /\ req = NoRequest
    /\ resp = NoResponse
    /\ oplog = <<>>
    /\ hist = [c \in Collections |-> <<>>]
    /\ nops = 0
    /\ pages = <<>>
    /\ procs = <<>>

\* One more store request adds and rewrites documents with a later timestamp;
\* then the client pages.
NextClient ==
    \/ pages = <<>> /\ hist[MERCHANTS_COLLECTION] = <<>> /\ PStoreMerchant
    \/ pages = <<>> /\ PageFirst
    \/ PageNext
    \/ Reply

\* Every request is answered, and the client does not give up.
SpecClient ==
    InitClient /\ [][NextClient]_vars /\ WF_vars(Reply) /\ WF_vars(PageNext)

-----------------------------------------------------------------------------
(* Approvals and denials that run at the same time.  Every instance of a
   handler has its own position and locals; a step is one call on the
   document store with the code up to the next call. *)

ActionOf(h) == IF h = "approve_pending_merchant" THEN "approved" ELSE "denied"

\* The accumulators of instance p with the store as it is now.
LoopState(p, d) == [db |-> d, done |-> p.done, failed |-> p.failed, log |-> <<>>]

\* Instance p with the accumulators of st, at the get of the next key, or
\* returning its response when the keys are through.
Advance(p, st) ==
    IF p.i + 1 > Len(p.ids)
    THEN [p EXCEPT !.done = st.done, !.failed = st.failed, !.i = p.i + 1, !.snap = <<>>,
                   !.pc = "replied",
                   !.resp = mover_response(st, ActionOf(p.handler), p.ids, p.origin)]
    ELSE [p EXCEPT !.done = st.done, !.failed = st.failed, !.i = p.i + 1, !.snap = <<>>,
                   !.pc = "fetch"]

\* The pending merchants are stored before the approvals and denials arrive.
CStorePendingMerchant ==
    \E body \in MoverShopBodies :
        LET r == StoreRequest("store_pending_merchant", body,
                              NoFaults(Len(body.merchants.list)), nops + 1)
        IN /\ procs = <<>>
           /\ Handled(r, store_pending_merchant(db, r))
           /\ hist' = HistAfter(PENDING_MERCHANTS_COLLECTION, body, r.faults)
           /\ UNCHANGED procs

\* The requests that may overlap: approve or deny, of one key or of two.
MoverKinds ==
    << [handler |-> "approve_pending_merchant", ids |-> <<"-5jUStdQGpW">>],
       [handler |-> "deny_pending_merchant", ids |-> <<"-5jUStdQGpW">>],
       [handler |-> "approve_pending_merchant", ids |-> <<"0QVg0Xa0x0B", "-5jUStdQGpW">>],
       [handler |-> "deny_pending_merchant", ids |-> <<"0QVg0Xa0x0B", "-5jUStdQGpW">>] >>

\* An approve or deny request arrives, once the stores are answered, and passes
\* the checks before the loop.  An instance touches nothing shared before its
\* first get and the instances are interchangeable, so those that will overlap
\* are taken to arrive before the first of them makes a call, in the order of
\* MoverKinds.
Arrive ==
    /\ Idle
    /\ Len(procs) < MaxProcs
    /\ \A n \in 1..Len(procs) : procs[n].pc = "fetch" /\ procs[n].i = 1
    /\ \E kind \in 1..Len(MoverKinds) :
         LET r == MoverRequest(MoverKinds[kind].handler, MoverKinds[kind].ids,
                               NoFaults(Len(MoverKinds[kind].ids)))
         IN /\ \A n \in 1..Len(procs) : procs[n].kind <= kind
            /\ IsNone(handle_common_request_validation(r, "POST"))
            /\ IsNone(mover_body_check(r))
            /\ procs' = Append(procs,
                   [ handler |-> r.handler, origin |-> r.origin, kind |-> kind,
                     ids |-> r.body.merchant_ids.list,
                     i |-> 1, pc |-> "fetch", snap |-> <<>>,
                     done |-> <<>>, failed |-> <<>>, resp |-> NoResponse ])
    /\ UNCHANGED <<db, req, resp, oplog, hist, nops, pages>>

\* pending_doc_ref.get() of instance n, and the code up to the write: the get
\* raises, or the document is not there, or the snapshot is kept.
Fetch(n) ==
    /\ procs[n].pc = "fetch"
    /\ LET p == procs[n]
           merchant_id == p.ids[p.i]
           P == PENDING_MERCHANTS_COLLECTION
           exists == merchant_id \in DOMAIN db[P]
           st == LoopState(p, db)
       IN \/ procs' = [procs EXCEPT ![n] =
                 Advance(p, IF p.handler = "approve_pending_merchant"
                            THEN approve_one(st, merchant_id, "get")
                            ELSE deny_one(st, merchant_id, "get"))]
          \/ /\ ~exists
             /\ procs' = [procs EXCEPT ![n] =
                   Advance(p, IF p.handler = "approve_pending_merchant"
                              THEN approve_fetched(st, merchant_id, FALSE, <<>>, "none")
                              ELSE deny_fetched(st, merchant_id, FALSE, "none"))]
          \/ /\ exists
             /\ procs' = [procs EXCEPT ![n] = [p EXCEPT !.snap = db[P][merchant_id],
                                                        !.pc = "write"]]
    /\ UNCHANGED <<db, req, resp, oplog, hist, nops, pages>>

\* The transaction of an approving instance, or the delete of a denying one,
\* on the store as it is now: it commits or it raises.
Write(n) ==
    /\ procs[n].pc = "write"
    /\ \E fault \in {"none", "write"} :
         LET p == procs[n]
             merchant_id == p.ids[p.i]
             st == IF p.handler = "approve_pending_merchant"
                   THEN approve_fetched(LoopState(p, db), merchant_id, TRUE, p.snap, fault)
                   ELSE deny_fetched(LoopState(p, db), merchant_id, TRUE, fault)
         IN /\ db' = st.db
            /\ procs' = [procs EXCEPT ![n] = Advance(p, st)]
    /\ UNCHANGED <<req, resp, oplog, hist, nops, pages>>

NextConc ==
    \/ CStorePendingMerchant
    \/ Reply
    \/ Arrive
    \/ \E n \in 1..Len(procs) : Fetch(n)
    \/ \E n \in 1..Len(procs) : Write(n)

SpecConc == Init /\ [][NextConc]_vars

-----------------------------------------------------------------------------
(* Contact collections that hold documents written before messages were lists *)

\* The message values a document may hold: a single string, a list, an empty
\* list, a number, null.
LegacyMessages ==
    { JStr("legacy"), JList(<<"old", "older">>), JList(<<>>), JInt(7), JNone }

\* The documents found for a@b.com: one per message value, one without the
\* message field.
LegacyDocs ==
    { [name |-> "Ann", email |-> "a@b.com", datetime |-> 0, message |-> m] :
          m \in LegacyMessages }
    \cup { [name |-> "Ann", email |-> "a@b.com", datetime |-> 0] }

InitLegacy ==
    /\ \E doc \in LegacyDocs :
         db = [c \in Collections |->
                 IF c = LANDING_SITE_CONTACT_FORM_LEAD_COLLECTION
                 THEN [k \in {email_to_short_id("a@b.com")} |-> doc]
                 ELSE IF c = CONTACTS_COLLECTION
                 THEN [k \in {"a@b.com"} |-> doc]
                 ELSE <<>>]
    /\ req = NoRequest
    /\ resp = NoResponse
    /\ oplog = <<>>
    /\ hist = [c \in Collections |-> <<>>]
    /\ nops = 0
    /\ pages = <<>>
    /\ procs = <<>>

NextLegacy == StoreLead \/ StoreContact \/ Reply

SpecLegacy == InitLegacy /\ [][NextLegacy]_vars

-----------------------------------------------------------------------------
(* Contact store requests that overlap: each instance of the handler does the
   get and the set of its item as separate calls on the firestore client *)

\* doc_ref.get(): the document of the key as the collection holds it, if any.
existing_doc(coll, doc_id) == [k \in {doc_id} \cap DOMAIN coll |-> coll[k]]

existing_doc_reread(snap, coll, doc_id) == [k \in {doc_id} \cap DOMAIN coll |-> coll[k]]

\* The snapshot the handler builds its document from when it calls set: the one
\* its own get returned, whatever the collection holds by then.
existing_doc_at_set(snap, coll, doc_id) == snap

RaceItems == { LeadA, LeadA2, LeadC }

\* A request with one valid item arrives at an instance of its own; it passes
\* the request checks and the validation and takes the time of the request.
RaceArrive ==
    /\ Idle
    /\ Len(procs) < MaxProcs
    /\ nops < MaxOps
    /\ \E c \in {LANDING_SITE_CONTACT_FORM_LEAD_COLLECTION, CONTACTS_COLLECTION} :
         \E item \in RaceItems :
           procs' = Append(procs, [ coll |-> c, item |-> item, now |-> nops + 1,
                                    pc |-> "get", snap |-> <<>>, resp |-> NoResponse ])
    /\ nops' = nops + 1
    /\ UNCHANGED <<db, req, resp, oplog, hist, pages>>

\* existing_doc = doc_ref.get()
RaceGet(n) ==
    /\ procs[n].pc = "get"
    /\ LET p == procs[n]
       IN procs' = [procs EXCEPT ![n] =
                      [p EXCEPT !.pc = "set",
                                !.snap = existing_doc(db[p.coll], ContactKey(p.coll, p.item))]]
    /\ UNCHANGED <<db, req, resp, oplog, hist, nops, pages>>

\* doc_ref.set(contact_data), the result of the item and the response.
RaceSet(n) ==
    /\ procs[n].pc = "set"
    /\ LET p == procs[n]
           k == ContactKey(p.coll, p.item)
           st == store_contacts_loop(
                     StoreState(existing_doc_at_set(p.snap, db[p.coll], k)),
                     p.coll, <<p.item>>, <<"none">>, p.now, 0)
       IN /\ db' = [db EXCEPT ![p.coll] = DocSet(@, k, st.coll[k])]
          /\ procs' = [procs EXCEPT ![n] =
                         [p EXCEPT !.pc = "replied",
                                   !.resp = Response(store_status_code(Len(st.errors)), NoOrigin,
                                                     store_contacts_response(st, <<p.item>>))]]
          /\ hist' = [hist EXCEPT ![p.coll] = Acknowledge(@, p.coll, <<p.item>>, <<"none">>, 1)]
    /\ UNCHANGED <<req, resp, oplog, nops, pages>>

NextRace ==
    \/ RaceArrive
    \/ \E n \in 1..Len(procs) : RaceGet(n)
    \/ \E n \in 1..Len(procs) : RaceSet(n)

SpecRace == Init /\ [][NextRace]_vars

-----------------------------------------------------------------------------
(* A store_pending_merchant request that runs at the same time as approvals
   and denials: its get and its set are separate calls on the document store *)

UpdateItems == { ShopA2, ShopC }

\* A store_pending_merchant request with one valid item arrives at an instance
\* of its own, after the approvals and denials it overlaps; it passes the
\* request checks and the validation and takes the time of the request.
UpdateArrive ==
    /\ Idle
    /\ Len(procs) < MaxProcs
    /\ nops < MaxOps
    /\ \A n \in 1..Len(procs) : procs[n].pc = "fetch" /\ procs[n].i = 1
    /\ \E item \in UpdateItems :
         procs' = Append(procs,
             [ handler |-> "store_pending_merchant", origin |-> NoOrigin, kind |-> 0,
               ids |-> <<email_to_short_id(normalize_email(item.email))>>,
               i |-> 1, pc |-> "get", snap |-> <<>>, done |-> <<>>, failed |-> <<>>,
               resp |-> NoResponse, item |-> item, now |-> nops + 1 ])
    /\ nops' = nops + 1
    /\ UNCHANGED <<db, req, resp, oplog, hist, pages>>

\* existing_doc = doc_ref.get()
UpdateGet(n) ==
    /\ procs[n].pc = "get"
    /\ LET p == procs[n]
       IN procs' = [procs EXCEPT ![n] =
                      [p EXCEPT !.pc = "set",
                                !.snap = existing_doc(db[PENDING_MERCHANTS_COLLECTION],
                                                      p.ids[1])]]
    /\ UNCHANGED <<db, req, resp, oplog, hist, nops, pages>>

\* doc_ref.set(merchant_data), the result of the item and the response; the
\* action of the result is that of the snapshot of the instance's own get.
UpdateSet(n) ==
    /\ procs[n].pc = "set"
    /\ LET p == procs[n]
           P == PENDING_MERCHANTS_COLLECTION
           k == p.ids[1]
           r == StoreRequest(p.handler, p.item, <<"none">>, p.now)
           out == store_pending_merchant([db EXCEPT ![P] = p.snap], r)
       IN /\ db' = [db EXCEPT ![P] = DocSet(@, k, out.db[P][k])]
          /\ procs' = [procs EXCEPT ![n] = [p EXCEPT !.pc = "replied", !.resp = out.resp]]
          /\ hist' = [hist EXCEPT ![P] = Acknowledge(@, P, <<p.item>>, <<"none">>, 1)]
    /\ UNCHANGED <<req, resp, oplog, nops, pages>>

\* One approval or denial, and the store request that overlaps it.
NextOverlap ==
    \/ CStorePendingMerchant
    \/ Reply
    \/ procs = <<>> /\ Arrive
    \/ UpdateArrive
    \/ \E n \in 1..Len(procs) : Fetch(n)
    \/ \E n \in 1..Len(procs) : Write(n)
    \/ \E n \in 1..Len(procs) : UpdateGet(n)
    \/ \E n \in 1..Len(procs) : UpdateSet(n)

SpecOverlap == Init /\ [][NextOverlap]_vars

-----------------------------------------------------------------------------
(* Requests of browsers and other clients: every handler, with and without an
   Origin header, with every method *)

Origins == { NoOrigin, "https://guavaaa.com", "https://evil.example" }

Methods == { "GET", "POST", "OPTIONS" }

Dish == [name |-> "Ramen", rating |-> JInt(8), review |-> "rich"]

\* Bodies of the two generating handlers: one that passes, a rating out of
\* range, a dish without a review, no restaurant name, no body.
SocialBodies ==
    { [restaurant_name |-> "Menya", dishes |-> JList(<<Dish>>),
       dining_experience |-> [occasion |-> "lunch"]],
      [restaurant_name |-> "Menya", dishes |-> JList(<<Dish, [Dish EXCEPT !.rating = JInt(11)]>>),
       dining_experience |-> [occasion |-> "lunch"]],
      [restaurant_name |-> "Menya", dishes |-> JList(<<[name |-> "Ramen", rating |-> JInt(8)]>>),
       dining_experience |-> [occasion |-> "lunch"]],
      [dishes |-> JList(<<Dish>>), dining_experience |-> [occasion |-> "lunch"]],
      <<>> }

StoreOutcome(d, r) ==
    CASE r.handler = "store_landing_site_contact_form_lead"
           -> store_landing_site_contact_form_lead(d, r)
      [] r.handler = "store_contact" -> store_contact(d, r)
      [] r.handler = "store_merchant" -> store_merchant(d, r)
      [] r.handler = "store_pending_merchant" -> store_pending_merchant(d, r)

\* A store request with one valid item.
OStore ==
    \E h \in {"store_landing_site_contact_form_lead", "store_contact",
              "store_merchant", "store_pending_merchant"},
       origin \in Origins, method \in Methods :
        LET contacts == h \in {"store_landing_site_contact_form_lead", "store_contact"}
            body == IF contacts THEN LeadA ELSE ShopA
            r == [StoreRequest(h, body, NoFaults(1), nops + 1)
                    EXCEPT !.origin = origin, !.method = method]
            out == StoreOutcome(db, r)
        IN /\ Handled(r, out)
           /\ hist' = IF out.log = <<>> THEN hist
                      ELSE [hist EXCEPT ![out.log[1].coll] =
                               Acknowledge(@, out.log[1].coll, <<body>>, r.faults, 1)]
           /\ UNCHANGED procs

\* An unfiltered read without a limit.
ORead ==
    \E h \in AllReadHandlers, origin \in Origins, method \in Methods :
        LET r == [ReadRequest(h, JNone, JNone, JNone)
                    EXCEPT !.origin = origin, !.method = method]
        IN /\ HandledRead(r, AnyReadOutcome(db, r))
           /\ UNCHANGED pages

\* An approval or a denial of the pending merchant of a@b.com.
OMove ==
    \E h \in {"approve_pending_merchant", "deny_pending_merchant"},
       origin \in Origins, method \in Methods :
        LET r == [MoverRequest(h, <<"-5jUStdQGpW">>, NoFaults(1))
                    EXCEPT !.origin = origin, !.method = method]
        IN /\ Handled(r, IF h = "approve_pending_merchant"
                         THEN approve_pending_merchant(db, r)
                         ELSE deny_pending_merchant(db, r))
           /\ UNCHANGED <<hist, procs>>

\* What a generating handler finds: the API key configured and the call
\* returning either text, the call raising, no API key.
ApiOutcomes ==
    { [api_key |-> TRUE, completion |-> c, faults |-> <<"none">>] : c \in Completions }
    \cup { [api_key |-> TRUE, completion |-> "Cozy spot.", faults |-> <<"completion">>],
           [api_key |-> FALSE, completion |-> "Cozy spot.", faults |-> <<"none">>] }

\* A request for a generated post.
OGenerate ==
    \E h \in {"generate_social_media_post", "generate_chinese_social_media_post"},
       origin \in Origins, method \in Methods, body \in SocialBodies, api \in ApiOutcomes :
        LET r == [handler |-> h, method |-> method, origin |-> origin, body |-> body,
                  api_key |-> api.api_key, completion |-> api.completion,
                  faults |-> api.faults]
        IN /\ HandledRead(r, IF h = "generate_social_media_post"
                             THEN generate_social_media_post(db, r)
                             ELSE generate_chinese_social_media_post(db, r))
           /\ UNCHANGED pages

NextOrigin == OStore \/ ORead \/ OMove \/ OGenerate \/ Reply

\* The requests find two merchants and one pending merchant.
InitOrigin ==
    /\ InitMove
    /\ Cardinality(DOMAIN db[MERCHANTS_COLLECTION]) = 2
    /\ Cardinality(DOMAIN db[PENDING_MERCHANTS_COLLECTION]) = 1

SpecOrigin == InitOrigin /\ [][NextOrigin]_vars

-----------------------------------------------------------------------------
(* Batches of contacts that name an address more than once *)

BatchPatterns == { <<LeadA, LeadB, LeadA>>, <<LeadC, LeadA, LeadB>>, <<LeadA, LeadA2, LeadB>> }

BatchBodies == { [contacts |-> JList(Cycle(p, n))] : p \in BatchPatterns, n \in 1..MaxBatch }

BStoreLead ==
    \E body \in BatchBodies :
      \E faults \in FaultPlans(body, "contacts", LANDING_SITE_CONTACT_FORM_LEAD_COLLECTION) :
        LET r == StoreRequest("store_landing_site_contact_form_lead", body, faults, nops + 1)
        IN /\ Handled(r, store_landing_site_contact_form_lead(db, r))
           /\ hist' = HistAfter(LANDING_SITE_CONTACT_FORM_LEAD_COLLECTION, body, faults)
           /\ UNCHANGED procs

BStoreContact ==
    \E body \in BatchBodies :
      \E faults \in FaultPlans(body, "contacts", CONTACTS_COLLECTION) :
        LET r == StoreRequest("store_contact", body, faults, nops + 1)
        IN /\ Handled(r, store_contact(db, r))
           /\ hist' = HistAfter(CONTACTS_COLLECTION, body, faults)
           /\ UNCHANGED procs

NextBatch == BStoreLead \/ BStoreContact \/ Reply

SpecBatch == Init /\ [][NextBatch]_vars

-----------------------------------------------------------------------------
(* Stores of leads, merchants and pending merchants, approvals and denials,
   one request after another from empty collections *)

NextKeys ==
    \/ StoreLead \/ StoreMerchant \/ StorePendingMerchant
    \/ MApprove \/ MDeny \/ Reply

SpecKeys == Init /\ [][NextKeys]_vars

-----------------------------------------------------------------------------
(* Properties *)

ContactStores == {"store_landing_site_contact_form_lead", "store_contact"}
MerchantStores == {"store_merchant", "store_pending_merchant"}
StoreHandlers == ContactStores \cup MerchantStores

CollectionOf(h) ==
    CASE h = "store_landing_site_contact_form_lead" -> LANDING_SITE_CONTACT_FORM_LEAD_COLLECTION
      [] h = "store_contact" -> CONTACTS_COLLECTION
      [] h = "store_merchant" -> MERCHANTS_COLLECTION
      [] h = "store_pending_merchant" -> PENDING_MERCHANTS_COLLECTION

BatchField(h) == IF h \in ContactStores THEN "contacts" ELSE "merchants"

\* The items of store request r, and whether all of them pass pre-validation.
Submitted(r) == ItemsOf(r.body, BatchField(r.handler))
Validated(r) == BodyValid(r.body, BatchField(r.handler), CollectionOf(r.handler))

\* The 1-based positions of the items of r whose firestore calls raise / do not.
FailedPositions(r) ==
    SelectSeq([i \in 1..Len(r.faults) |-> i], LAMBDA i : r.faults[i] # "none")
PassedPositions(r) ==
    SelectSeq([i \in 1..Len(r.faults) |-> i], LAMBDA i : r.faults[i] = "none")

\* The number of results after position j of a response that address key k.
LaterFor(stored, j, k) ==
    Cardinality({ i \in (j + 1)..Len(stored) : stored[i].document_id = k })

\* C1: with stores executed one after another from an empty collection, the
\* document of a key holds exactly the messages of the acknowledged stores of
\* that key, in submission order (duplicates kept); there is one document for
\* the key; the store that made the sequence one long reports 'created' and
\* every later one 'updated'; total_messages is the length of the sequence as
\* stored by that item.
C1_MessagesAccumulate ==
    \A c \in {LANDING_SITE_CONTACT_FORM_LEAD_COLLECTION, CONTACTS_COLLECTION} :
      /\ \A k \in DOMAIN hist[c] :
           /\ k \in DOMAIN db[c]
           /\ db[c][k].message = JList(hist[c][k])
           /\ Cardinality({ k2 \in DOMAIN db[c] : ContactKey(c, db[c][k2]) = k }) = 1
      /\ DOMAIN db[c] = DOMAIN hist[c]
      /\ (~Idle /\ req.handler \in ContactStores /\ CollectionOf(req.handler) = c
            /\ resp.status \in {HTTP_OK, HTTP_MULTI_STATUS})
         => LET stored == resp.body.stored_contacts
            IN \A j \in 1..Len(stored) :
                 LET k == stored[j].document_id
                 IN /\ k \in DOMAIN hist[c]
                    /\ stored[j].total_messages = Len(hist[c][k]) - LaterFor(stored, j, k)
                    /\ (stored[j].action = "created") <=> (stored[j].total_messages = 1)
                    /\ (stored[j].action = "updated") <=> (stored[j].total_messages > 1)

\* C1 witness: a third store to the key of a@b.com is acknowledged, with a
\* message the key already holds.
C1_Witness ==
    /\ ~Idle
    /\ req.handler = "store_landing_site_contact_form_lead"
    /\ resp.status = HTTP_OK
    /\ "-5jUStdQGpW" \in DOMAIN hist[LANDING_SITE_CONTACT_FORM_LEAD_COLLECTION]
    /\ hist[LANDING_SITE_CONTACT_FORM_LEAD_COLLECTION]["-5jUStdQGpW"] = <<"hi", "bye", "hi">>

\* C2: a store request with an item that lacks a required field makes no
\* firestore call and leaves every collection as it was.
C2_RejectedBatchWritesNothing ==
    [][ (req'.handler \in StoreHandlers
           /\ \E i \in 1..Len(Submitted(req')) :
                ~ItemValid(Submitted(req')[i], CollectionOf(req'.handler)))
        => (db' = db /\ oplog' = <<>>) ]_vars

\* C2 witness: a batch whose second item lacks a field is answered while the
\* collection it addresses holds a document.
C2_Witness ==
    /\ ~Idle
    /\ req.handler \in StoreHandlers
    /\ Len(Submitted(req)) = 2
    /\ ItemValid(Submitted(req)[1], CollectionOf(req.handler))
    /\ ~ItemValid(Submitted(req)[2], CollectionOf(req.handler))
    /\ DOMAIN db[CollectionOf(req.handler)] # {}

\* C3: in a validated batch of contacts where the calls of some items raise,
\* the other items are stored in order, stored_successfully counts them,
\* there is one error entry per failed item carrying its 1-based position,
\* and the status is 207.
C3_PartialFailureIsolated ==
    (~Idle /\ req.handler \in ContactStores /\ Validated(req)
       /\ Len(FailedPositions(req)) > 0)
    => LET failed == FailedPositions(req)
           passed == PassedPositions(req)
           body == resp.body
       IN /\ resp.status = HTTP_MULTI_STATUS
          /\ body.stored_successfully = Len(passed)
          /\ Len(body.stored_contacts) = Len(passed)
          /\ \A j \in 1..Len(passed) :
               body.stored_contacts[j].email = Submitted(req)[passed[j]].email
          /\ IsList(body.errors)
          /\ Len(body.errors.list) = Len(failed)
          /\ \A j \in 1..Len(failed) :
               body.errors.list[j].contact_index = failed[j]

\* C3 witness: the second of two contacts fails and the first is stored.
C3_Witness ==
    /\ ~Idle
    /\ req.handler \in ContactStores
    /\ Validated(req)
    /\ req.faults = <<"none", "set">>
    /\ resp.body.stored_successfully = 1

\* An unfiltered read that is answered with a page.
PageAnswered ==
    /\ ~Idle
    /\ req.handler \in ReadHandlers
    /\ resp.status = HTTP_OK
    /\ ~resp.body.filtered

\* The limit the reader applied to request r: none, or the parsed number, at
\* most 100.
AppliedLimit(r) ==
    IF ~Truthy(r.limit) THEN 0
    ELSE IF ParseInt(r.limit.str).int > MAX_LIMIT THEN MAX_LIMIT
    ELSE ParseInt(r.limit.str).int

\* The ids of the records of the pages the client has fetched, in the order
\* fetched.
RECURSIVE PagedIds(_)
PagedIds(n) ==
    IF n = 0 THEN <<>>
    ELSE PagedIds(n - 1) \o [j \in 1..Len(pages[n].data.merchants) |->
                                pages[n].data.merchants[j].id]

\* C6: the pages a client fetches one after another, each with the cursor the
\* previous page gave and no write in between, continue each other in
\* descending-timestamp order: no record is in two pages, the timestamps never
\* rise, no record left out is newer than the last one fetched, every page
\* before the last is full, and a page shorter than the limit ends the
\* collection (equal timestamps included).
C6_PagesContinue ==
    pages # <<>> =>
      LET coll == db[ReadCollection(pages[1].handler)]
          limit == ParseInt(pages[1].limit.str).int
          ids == PagedIds(Len(pages))
          fetched == { ids[j] : j \in 1..Len(ids) }
      IN /\ \A j \in 1..Len(ids) : ids[j] \in DOMAIN coll
         /\ \A j, k \in 1..Len(ids) : j # k => ids[j] # ids[k]
         /\ \A j \in 1..(Len(ids) - 1) : coll[ids[j]].datetime >= coll[ids[j + 1]].datetime
         /\ \A x \in DOMAIN coll \ fetched :
               Len(ids) > 0 /\ coll[x].datetime <= coll[ids[Len(ids)]].datetime
         /\ \A n \in 1..(Len(pages) - 1) : Len(pages[n].data.merchants) = limit
         /\ Len(pages[Len(pages)].data.merchants) < limit => fetched = DOMAIN coll

\* C6 witness: a second page is fetched whose first record carries the
\* timestamp of the last record of the first page.
C6_Witness ==
    /\ Len(pages) >= 2
    /\ Len(pages[2].data.merchants) > 0
    /\ LET coll == db[ReadCollection(pages[1].handler)]
           page1 == pages[1].data.merchants
       IN coll[page1[Len(page1)].id].datetime = coll[pages[2].data.merchants[1].id].datetime

\* C8: in an unfiltered read has_more is true exactly when a limit was applied
\* and the page holds exactly that many records.
C8_HasMoreIffFullPage ==
    PageAnswered =>
      (resp.body.pagination.has_more
         <=> (Truthy(req.limit) /\ Len(resp.body.merchants) = AppliedLimit(req)))

\* C8 witness: a limited read returns a page that is not empty and shorter than
\* the limit, and says there is no more.
C8_Witness ==
    /\ PageAnswered
    /\ Truthy(req.limit)
    /\ Len(resp.body.merchants) > 0
    /\ Len(resp.body.merchants) < AppliedLimit(req)
    /\ ~resp.body.pagination.has_more

\* C9 as stated: in an unfiltered read next_cursor is the key of the last
\* record whenever a limit was applied and the page is not empty, and is absent
\* exactly when the page is empty or the scan was unlimited.
C9_CursorOnEveryLimitedPage ==
    PageAnswered =>
      LET merchants == resp.body.merchants
          next_cursor == resp.body.pagination.next_cursor
      IN /\ (Truthy(req.limit) /\ Len(merchants) > 0)
               => next_cursor = merchants[Len(merchants)].id
         /\ (next_cursor = PyNone) <=> (Len(merchants) = 0 \/ ~Truthy(req.limit))

\* C9: in an unfiltered read next_cursor is the key of the last record when a
\* limit was applied and the page holds exactly that many records, and is
\* absent otherwise: for an unlimited scan, an empty page, and a page shorter
\* than the limit.
C9_CursorOnFullPage ==
    PageAnswered =>
      LET merchants == resp.body.merchants
          next_cursor == resp.body.pagination.next_cursor
      IN IF Truthy(req.limit) /\ Len(merchants) = AppliedLimit(req)
         THEN next_cursor = merchants[Len(merchants)].id
         ELSE next_cursor = PyNone

\* C9 witness: a limited read returns a page that is not empty and shorter than
\* the limit, without a next_cursor.
C9_Witness ==
    /\ PageAnswered
    /\ Truthy(req.limit)
    /\ Len(resp.body.merchants) > 0
    /\ Len(resp.body.merchants) < AppliedLimit(req)
    /\ resp.body.pagination.next_cursor = PyNone

\* C7: a read of merchants or pending merchants with a limit above 100 is
\* answered without an error, with at most 100 records and with
\* pagination.limit 100.
C7_LimitClamped ==
    (~Idle /\ req.handler \in ReadHandlers /\ Truthy(req.limit)
       /\ IsInt(ParseInt(req.limit.str)) /\ ParseInt(req.limit.str).int > MAX_LIMIT)
    => /\ resp.status = HTTP_OK
       /\ Len(resp.body.merchants) <= MAX_LIMIT
       /\ resp.body.count <= MAX_LIMIT
       /\ resp.body.pagination.limit = JInt(MAX_LIMIT)

\* C7 witness: limit=500 on a collection of more than 100 documents returns 100.
C7_Witness ==
    /\ ~Idle
    /\ req.handler \in ReadHandlers
    /\ req.limit = JStr("500")
    /\ Cardinality(DOMAIN db[ReadCollection(req.handler)]) > MAX_LIMIT
    /\ resp.status = HTTP_OK
    /\ Len(resp.body.merchants) = MAX_LIMIT

\* The keys of the segments of an identifiers parameter, from position i on,
\* that have a document in coll: in the order given, repeats kept.
RECURSIVE ExistingKeys(_, _, _)
ExistingKeys(coll, segments, i) ==
    IF i > Len(segments) THEN <<>>
    ELSE (IF Strip(segments[i]) \in DOMAIN coll THEN <<Strip(segments[i])>> ELSE <<>>)
         \o ExistingKeys(coll, segments, i + 1)

\* The read request names at least one identifier, and its limit is one the
\* handler reads with: the lead handler takes no limit, the merchant handlers
\* refuse a limit that is no positive integer before they read.
FilteredRead(r) ==
    /\ r.handler \in AllReadHandlers
    /\ ~IsNone(r.identifiers)
    /\ \E i \in 1..Len(r.identifiers.segments) : Strip(r.identifiers.segments[i]) # ""
    /\ \/ r.handler = "get_landing_site_contact_form_lead"
       \/ ~Truthy(r.limit)
       \/ IsInt(ParseInt(r.limit.str)) /\ ParseInt(r.limit.str).int > 0

ReportedDone(p) ==
    IF p.pc = "replied"
    THEN { p.resp.body.done_merchants[j].merchant_id :
             j \in 1..Len(p.resp.body.done_merchants) }
    ELSE {}

\* C4: the write of an approving instance, for a key it has fetched from
\* Pending, either commits (the Merchant collection then holds the fetched
\* data at the key, Pending holds nothing there, and the key is recorded as
\* approved) or fails (no collection changes and the key is recorded as
\* failed); no step sets the Merchant document without deleting the pending
\* one, or the reverse.
C4_ApproveAtomic ==
    [][ \A n \in 1..Len(procs) :
          (procs[n].handler = "approve_pending_merchant" /\ procs[n].pc = "write"
             /\ procs'[n] # procs[n])
          => LET k == procs[n].ids[procs[n].i]
                 M == MERCHANTS_COLLECTION
                 P == PENDING_MERCHANTS_COLLECTION
             IN \/ /\ k \in DOMAIN db'[M]
                   /\ db'[M][k] = procs[n].snap
                   /\ k \notin DOMAIN db'[P]
                   /\ \A x \in DOMAIN db[M] \ {k} : x \in DOMAIN db'[M] /\ db'[M][x] = db[M][x]
                   /\ DOMAIN db'[M] = DOMAIN db[M] \cup {k}
                   /\ db'[P] = DocDelete(db[P], k)
                   /\ Len(procs'[n].done) = Len(procs[n].done) + 1
                   /\ procs'[n].done[Len(procs'[n].done)].merchant_id = k
                   /\ procs'[n].failed = procs[n].failed
                \/ /\ db' = db
                   /\ Len(procs'[n].failed) = Len(procs[n].failed) + 1
                   /\ procs'[n].failed[Len(procs'[n].failed)].merchant_id = k
                   /\ procs'[n].done = procs[n].done ]_vars

\* C4 witness: an approve request for two pending keys has answered; the
\* transaction of the first committed and that of the second failed.
C4_Witness ==
    \E n \in 1..Len(procs) :
      /\ procs[n].handler = "approve_pending_merchant"
      /\ procs[n].pc = "replied"
      /\ procs[n].resp.status = HTTP_MULTI_STATUS
      /\ ReportedDone(procs[n]) = {"0QVg0Xa0x0B"}
      /\ procs[n].failed = <<[merchant_id |-> "-5jUStdQGpW",
                              error |-> ErrorText("transaction")]>>
      /\ "0QVg0Xa0x0B" \in DOMAIN db[MERCHANTS_COLLECTION]
      /\ "0QVg0Xa0x0B" \notin DOMAIN db[PENDING_MERCHANTS_COLLECTION]
      /\ "-5jUStdQGpW" \in DOMAIN db[PENDING_MERCHANTS_COLLECTION]
      /\ "-5jUStdQGpW" \notin DOMAIN db[MERCHANTS_COLLECTION]

\* C5 as stated: for a pending merchant stored once, an approve request and a
\* deny request that name its key never both report success for it, whatever
\* the interleaving, and a key reported as denied is not in the Merchant
\* collection.
C5_OneTerminalTransition ==
    \A k \in DOMAIN hist[PENDING_MERCHANTS_COLLECTION] :
      Len(hist[PENDING_MERCHANTS_COLLECTION][k]) = 1
      => /\ \A n, m \in 1..Len(procs) :
              (procs[n].handler = "approve_pending_merchant"
                 /\ procs[m].handler = "deny_pending_merchant")
              => ~(k \in ReportedDone(procs[n]) /\ k \in ReportedDone(procs[m]))
         /\ (\E m \in 1..Len(procs) :
                procs[m].handler = "deny_pending_merchant" /\ k \in ReportedDone(procs[m]))
            => k \notin DOMAIN db[MERCHANTS_COLLECTION]

\* The limit of read request r is one its handler reads with.
LimitAccepted(r) ==
    \/ r.handler = "get_landing_site_contact_form_lead"
    \/ ~Truthy(r.limit)
    \/ IsInt(ParseInt(r.limit.str)) /\ ParseInt(r.limit.str).int > 0

\* C11 as stated: a read whose identifiers parameter is given and leaves no
\* identifier after splitting, trimming and dropping the empty ones (the empty
\* string included) is answered 400 'no valid identifiers' and scans nothing.
C11_EmptyIdentifiersRejected ==
    (~Idle /\ req.handler \in AllReadHandlers /\ ~IsNone(req.identifiers)
       /\ LimitAccepted(req)
       /\ \A i \in 1..Len(req.identifiers.segments) : Strip(req.identifiers.segments[i]) = "")
    => /\ resp.status = HTTP_BAD_REQUEST
       /\ resp.body.error = JStr("Invalid identifiers parameter - no valid identifiers found")
       /\ \A j \in 1..Len(oplog) : oplog[j].op # "stream"

\* An unfiltered read of merchants or pending merchants carries a cursor that
\* names no document of the collection it scans.
DanglingCursorRead ==
    /\ ~Idle
    /\ req.handler \in ReadHandlers
    /\ ~has_identifiers(req.identifiers)
    /\ LimitAccepted(req)
    /\ Truthy(req.cursor)
    /\ req.cursor.str \notin DOMAIN db[ReadCollection(req.handler)]

\* C12: a read whose cursor names no document of the scanned collection is
\* answered 200 with exactly the response of the same read without a cursor,
\* and its first record is one of the newest of the collection.
C12_DanglingCursorIgnored ==
    DanglingCursorRead =>
      LET coll == db[ReadCollection(req.handler)]
          plain == ReadOutcome(db, [req EXCEPT !.cursor = JNone]).resp
      IN /\ resp.status = HTTP_OK
         /\ resp.body = plain.body
         /\ coll # <<>> =>
              /\ Len(resp.body.merchants) > 0
              /\ \A x \in DOMAIN coll :
                   coll[x].datetime <= coll[resp.body.merchants[1].id].datetime

\* C12 witness: a limited read with a cursor that names no document returns a
\* full page of a collection that holds more.
C12_Witness ==
    /\ DanglingCursorRead
    /\ req.limit = JStr("2")
    /\ Len(resp.body.merchants) = 2
    /\ Cardinality(DOMAIN db[ReadCollection(req.handler)]) > 2


\* A store request answered with the envelope of the batch result aggregator.
StoreEnvelope ==
    /\ ~Idle
    /\ req.handler \in StoreHandlers
    /\ "stored_successfully" \in DOMAIN resp.body

EnvelopeTotal(body) ==
    IF "total_contacts" \in DOMAIN body THEN body.total_contacts ELSE body.total_merchants

EnvelopeStored(body) ==
    IF "stored_contacts" \in DOMAIN body THEN body.stored_contacts ELSE body.stored_merchants

EnvelopeErrorCount(body) == IF IsList(body.errors) THEN Len(body.errors.list) ELSE 0

\* C13 as stated: in every envelope of a store handler, success holds exactly
\* when there are no errors, the total is the number of submitted items,
\* stored_successfully is the length of the stored list, and
\* stored_successfully plus the number of error entries is the total.
C13_EnvelopeCountsExact ==
    StoreEnvelope =>
      LET body == resp.body
      IN /\ body.success <=> (EnvelopeErrorCount(body) = 0)
         /\ EnvelopeTotal(body) = Len(Submitted(req))
         /\ body.stored_successfully = Len(EnvelopeStored(body))
         /\ body.stored_successfully + EnvelopeErrorCount(body) = EnvelopeTotal(body)

\* A store request that pre-validation rejects: some item lacks a required field.
RejectedByValidation ==
    /\ ~Idle
    /\ req.handler \in StoreHandlers
    /\ \E i \in 1..Len(Submitted(req)) : ~ItemValid(Submitted(req)[i], CollectionOf(req.handler))

\* C14 as stated: every store handler answers a request rejected by
\* pre-validation with 400, never with 207 or 200.
C14_ValidationRejectionIs400 ==
    RejectedByValidation => resp.status = HTTP_BAD_REQUEST

\* C15 as stated: a store response with status 207 has at least one stored
\* item and at least one error entry, and an envelope without errors has
\* status 200.
C15_MultiStatusOnlyPartial ==
    StoreEnvelope =>
      /\ resp.status = HTTP_MULTI_STATUS
           => /\ Len(EnvelopeStored(resp.body)) >= 1
              /\ EnvelopeErrorCount(resp.body) >= 1
      /\ EnvelopeErrorCount(resp.body) = 0 => resp.status = HTTP_OK


NormalisingStores ==
    {"store_landing_site_contact_form_lead", "store_merchant", "store_pending_merchant"}

\* C16: in the lead, merchant and pending-merchant stores every stored item
\* is kept under the short id of its normalised e-mail address, the collection
\* holds no other document for that address, and the item is reported
\* 'updated' exactly when an earlier acknowledged store addressed the same
\* normalised address; the short id of an address is that of its normal form.
C16_NormalisedEmailOneKey ==
    /\ \A e \in Emails : email_to_short_id(e) = email_to_short_id(normalize_email(e))
    /\ (StoreEnvelope /\ req.handler \in NormalisingStores)
       => LET c == CollectionOf(req.handler)
              stored == EnvelopeStored(resp.body)
          IN \A j \in 1..Len(stored) :
               LET k == Sha256B64Prefix(normalize_email(stored[j].email))
               IN /\ stored[j].document_id = k
                  /\ k \in DOMAIN db[c]
                  /\ \A x \in DOMAIN db[c] :
                       normalize_email(db[c][x].email) = normalize_email(stored[j].email)
                       => x = k
                  /\ (stored[j].action = "updated")
                       <=> (Len(hist[c][k]) - LaterFor(stored, j, k) > 1)

\* C16 witness: " A@B.com" is stored after a@b.com, in one batch or in two
\* requests, and is reported as an update of the one document of the key.
C16_Witness ==
    /\ StoreEnvelope
    /\ req.handler \in NormalisingStores
    /\ \E j \in 1..Len(EnvelopeStored(resp.body)) :
         /\ EnvelopeStored(resp.body)[j].email = " A@B.com"
         /\ EnvelopeStored(resp.body)[j].action = "updated"
    /\ Cardinality(DOMAIN db[CollectionOf(req.handler)]) = 1


\* The fields of a document other than the message list and the timestamp,
\* and the value of an optional field the submission leaves out.
SubmittedFields(h) ==
    IF h \in ContactStores
    THEN {"name", "email", "phone", "company", "industry"}
    ELSE {"name", "email", "address", "description", "industry", "phone"}

OmittedDefault(h) == IF h \in ContactStores THEN "" ELSE PyNone

\* C17: after a store, the document of every key the response reports as
\* stored carries, in every field but the message list, the values of the last
\* stored item of the request for that key: a field the item leaves out has
\* its default (empty string for contacts, null for a merchant's phone), the
\* timestamp is that of the request, and a merchant document has no other field.
C17_FieldsReplaced ==
    (StoreEnvelope /\ Validated(req))
    => LET c == CollectionOf(req.handler)
           stored == EnvelopeStored(resp.body)
           passed == PassedPositions(req)
       IN \A j \in 1..Len(stored) :
            LaterFor(stored, j, stored[j].document_id) = 0
            => LET doc == db[c][stored[j].document_id]
                   item == Submitted(req)[passed[j]]
               IN /\ \A f \in SubmittedFields(req.handler) :
                       doc[f] = IF f \in DOMAIN item THEN item[f]
                                ELSE OmittedDefault(req.handler)
                  /\ doc.datetime = req.now
                  /\ DOMAIN doc = SubmittedFields(req.handler) \cup {"datetime"}
                                    \cup (IF req.handler \in ContactStores
                                          THEN {"message"} ELSE {})

\* C17 witness: an item without a phone is stored over the document of an
\* earlier request that had one, and the document has the default.
C17_Witness ==
    /\ StoreEnvelope
    /\ nops = 2
    /\ LET c == CollectionOf(req.handler)
       IN /\ "-5jUStdQGpW" \in DOMAIN hist[c]
          /\ hist[c]["-5jUStdQGpW"] \in { <<"bye", "hi">>, <<"Shop B", "Shop">> }
          /\ db[c]["-5jUStdQGpW"].phone = OmittedDefault(req.handler)


\* The messages of the document at key k of collection coll, read the way
\* the claim says: a string is one message, a list is itself, anything else
\* and no document is no message.
PriorMessages(coll, k) ==
    IF k \notin DOMAIN coll \/ "message" \notin DOMAIN coll[k] THEN <<>>
    ELSE IF IsStr(coll[k].message) THEN <<coll[k].message.str>>
    ELSE IF IsList(coll[k].message) THEN coll[k].message.list
    ELSE <<>>

\* The messages of the stored items of request r that address key k, in order.
NewMessages(r, stored, k) ==
    LET passed == PassedPositions(r)
        at == SelectSeq([j \in 1..Len(stored) |-> j], LAMBDA j : stored[j].document_id = k)
    IN [n \in 1..Len(at) |-> Submitted(r)[passed[at[n]]].message]

\* C18: a contact store leaves at every key it reports as stored the prior
\* message value as a sequence (a string as one element, a list as it is, an
\* absent field or another shape as empty) followed by the new messages of
\* the request for that key, in order.
C18_LegacyMessagesNormalised ==
    [][ (req'.handler \in ContactStores /\ "stored_successfully" \in DOMAIN resp'.body)
        => LET c == CollectionOf(req'.handler)
               stored == resp'.body.stored_contacts
           IN \A j \in 1..Len(stored) :
                LET k == stored[j].document_id
                IN db'[c][k].message =
                     JList(PriorMessages(db[c], k) \o NewMessages(req', stored, k)) ]_vars

\* C18 witness: a message is appended to a document that held a single
\* string, and the item is reported as the second message of an update.
C18_Witness ==
    /\ ~Idle
    /\ req.handler \in ContactStores
    /\ resp.status = HTTP_OK
    /\ nops = 1
    /\ Len(resp.body.stored_contacts) = 1
    /\ db[CollectionOf(req.handler)][resp.body.stored_contacts[1].document_id].message
         = JList(<<"legacy", "hi">>)
    /\ resp.body.stored_contacts[1].action = "updated"
    /\ resp.body.stored_contacts[1].total_messages = 2


\* The error strings of the response to a request that pre-validation rejects.
ValidationStrings ==
    IF req.handler \in ContactStores THEN resp.body.error.list
    ELSE [n \in 1..Len(resp.body.errors.list) |-> resp.body.errors.list[n].error]

\* C19: the response to a rejected store request carries one error string per
\* item that lacks a required field (absent, or present and empty) and none
\* for the other items; the string of an item names its 1-based position in
\* the batch and lists its missing fields in the order of the required fields.
C19_OneErrorStringPerFailingItem ==
    RejectedByValidation
    => LET c == CollectionOf(req.handler)
           items == Submitted(req)
           required == COLLECTION_REQUIRED_FIELDS(c)
           failing == SelectSeq([i \in 1..Len(items) |-> i],
                                LAMBDA i : ~ItemValid(items[i], c))
           label == IF req.handler \in ContactStores THEN "Contact" ELSE "Merchant"
           lacks(i) == SelectSeq(required,
                                 LAMBDA f : f \notin DOMAIN items[i] \/ items[i][f] = "")
       IN /\ Len(ValidationStrings) = Len(failing)
          /\ \A n \in 1..Len(failing) :
               ValidationStrings[n] =
                   label \o " " \o ToString(failing[n]) \o ": Missing required fields: "
                         \o JoinComma(lacks(failing[n]))

\* C19 witness: a batch of two items of which one passes and the other lacks
\* a field, or has two required fields present and empty.
C19_Witness ==
    /\ RejectedByValidation
    /\ Len(Submitted(req)) = 2
    /\ ValidationStrings \in { <<"Contact 2: Missing required fields: email">>,
                               <<"Merchant 2: Missing required fields: address">>,
                               <<"Contact 1: Missing required fields: name, message">> }


\* Instance n does its set in the step.
Sets(n) == n <= Len(procs) /\ procs[n].pc = "set" /\ procs'[n].pc = "replied"

\* C20: with overlapping contact store requests, the set of an instance
\* leaves at its key the messages its own get returned followed by its own
\* message, whatever was written in between, with the other fields of its own
\* submission, and the instance reports success; a document changes in no
\* other step.  (Two instances that both get before either sets therefore
\* both report success and leave one of the two messages: C20_Witness.)
C20_SetWritesFromOwnGet ==
    [][ /\ \A n \in 1..Len(procs) :
             Sets(n) =>
               LET p == procs[n]
                   k == ContactKey(p.coll, p.item)
                   doc == db'[p.coll][k]
               IN /\ doc.message = JList(PriorMessages(p.snap, k) \o <<p.item.message>>)
                  /\ doc.name = p.item.name /\ doc.email = p.item.email
                  /\ doc.phone = DictGet(p.item, "phone", "")
                  /\ doc.datetime = p.now
                  /\ procs'[n].resp.status = HTTP_OK
                  /\ procs'[n].resp.body.success
                  /\ procs'[n].resp.body.stored_contacts[1].total_messages
                       = Len(doc.message.list)
        /\ db' # db => \E n \in 1..Len(procs) : Sets(n) ]_vars

\* C20 witness: two requests for one key have both answered 200 with success,
\* each reporting its item as created, and the document holds the message of
\* one of them only, with the fields of the one that set last.
C20_Witness ==
    /\ Len(procs) = 2
    /\ procs[1].coll = LANDING_SITE_CONTACT_FORM_LEAD_COLLECTION
    /\ procs[2].coll = LANDING_SITE_CONTACT_FORM_LEAD_COLLECTION
    /\ procs[1].item = LeadA /\ procs[2].item = LeadA2
    /\ \A n \in 1..2 :
         /\ procs[n].pc = "replied"
         /\ procs[n].resp.status = HTTP_OK
         /\ procs[n].resp.body.success
         /\ procs[n].resp.body.stored_contacts[1].action = "created"
    /\ hist[LANDING_SITE_CONTACT_FORM_LEAD_COLLECTION]["-5jUStdQGpW"] = <<"bye", "hi">>
    /\ db[LANDING_SITE_CONTACT_FORM_LEAD_COLLECTION]["-5jUStdQGpW"].message = JList(<<"hi">>)
    /\ db[LANDING_SITE_CONTACT_FORM_LEAD_COLLECTION]["-5jUStdQGpW"].name = "Ann"
    /\ db[LANDING_SITE_CONTACT_FORM_LEAD_COLLECTION]["-5jUStdQGpW"].phone = ""


MoverHandlers == {"approve_pending_merchant", "deny_pending_merchant"}

\* The failure entries of an approve / deny response body.
FailedEntries(body) == IF IsList(body.failed_merchants) THEN body.failed_merchants.list ELSE <<>>

NotFoundText(k) == "Pending merchant with ID " \o k \o " not found"

\* The positions of the merchant_ids of request r whose key the pending
\* collection coll does not hold and whose get does not raise, and the others.
AbsentPositions(r, coll) ==
    SelectSeq([i \in 1..Len(r.faults) |-> i],
              LAMBDA i : r.body.merchant_ids.list[i] \notin DOMAIN coll /\ r.faults[i] # "get")
PresentPositions(r, coll) ==
    SelectSeq([i \in 1..Len(r.faults) |-> i],
              LAMBDA i : ~(r.body.merchant_ids.list[i] \notin DOMAIN coll /\ r.faults[i] # "get"))

\* Request r without the keys at the positions that are not in keep.
WithoutAbsent(r, keep) ==
    [r EXCEPT !.body = [merchant_ids |-> JList([n \in 1..Len(keep) |-> @.merchant_ids.list[keep[n]]])],
              !.faults = [n \in 1..Len(keep) |-> @[keep[n]]]]

\* C21: an approve request answers every listed key that pending-merchants
\* does not hold with a 'not found' failure entry, leaves both collections
\* without a document change at that key, and treats the other keys as the
\* request without the absent keys would: the same store afterwards, the same
\* approved keys and the same other failures.
C21_ApproveAbsentKeySkipped ==
    [][ (req'.handler = "approve_pending_merchant"
           /\ AbsentPositions(req', db[PENDING_MERCHANTS_COLLECTION]) # <<>>)
        => LET P == PENDING_MERCHANTS_COLLECTION
               M == MERCHANTS_COLLECTION
               ids == req'.body.merchant_ids.list
               absent == AbsentPositions(req', db[P])
               keep == PresentPositions(req', db[P])
               failed == FailedEntries(resp'.body)
               rest == approve_pending_merchant(db, WithoutAbsent(req', keep))
           IN /\ resp'.status = HTTP_MULTI_STATUS
              /\ \A n \in 1..Len(absent) :
                   LET k == ids[absent[n]]
                   IN /\ \E j \in 1..Len(failed) :
                           failed[j] = [merchant_id |-> k, error |-> NotFoundText(k)]
                      /\ k \notin DOMAIN db'[P]
                      /\ (k \in DOMAIN db'[M]) <=> (k \in DOMAIN db[M])
                      /\ k \in DOMAIN db[M] => db'[M][k] = db[M][k]
              /\ db' = rest.db
              /\ keep # <<>>
                   => /\ resp'.body.done_merchants = rest.resp.body.done_merchants
                      /\ SelectSeq(failed, LAMBDA e :
                             \A n \in 1..Len(absent) :
                                 e # [merchant_id |-> ids[absent[n]],
                                      error |-> NotFoundText(ids[absent[n]])])
                           = FailedEntries(rest.resp.body)
              /\ keep = <<>> => resp'.body.done_merchants = <<>> ]_vars

\* C21 witness: of two listed keys the first is absent and the second is
\* approved after it.
C21_Witness ==
    /\ ~Idle
    /\ req.handler = "approve_pending_merchant"
    /\ req.body.merchant_ids.list = <<"0QVg0Xa0x0B", "-5jUStdQGpW">>
    /\ resp.status = HTTP_MULTI_STATUS
    /\ FailedEntries(resp.body)
         = <<[merchant_id |-> "0QVg0Xa0x0B", error |-> NotFoundText("0QVg0Xa0x0B")]>>
    /\ Len(resp.body.done_merchants) = 1
    /\ "-5jUStdQGpW" \in DOMAIN db[MERCHANTS_COLLECTION]
    /\ "0QVg0Xa0x0B" \notin DOMAIN db[MERCHANTS_COLLECTION]


\* The number of entries of seq whose merchant_id is k, and the number of times
\* k is listed in ids.
EntriesFor(seq, k) == Cardinality({ j \in 1..Len(seq) : seq[j].merchant_id = k })
Listings(ids, k) == Cardinality({ i \in 1..Len(ids) : ids[i] = k })

\* C22: a deny request changes no collection but pending-merchants, where it
\* creates nothing and leaves every document it keeps, among them every
\* document whose key is not listed, as it was; when no call raises, every
\* listed key is gone afterwards, a key that was there is reported denied
\* once, and every other listing of a key is reported 'not found'.
C22_DenyRemovesListedOnly ==
    [][ (req'.handler = "deny_pending_merchant" /\ "done_merchants" \in DOMAIN resp'.body)
        => LET P == PENDING_MERCHANTS_COLLECTION
               ids == req'.body.merchant_ids.list
               listed == { ids[i] : i \in 1..Len(ids) }
               failed == FailedEntries(resp'.body)
           IN /\ \A c \in Collections \ {P} : db'[c] = db[c]
              /\ DOMAIN db'[P] \subseteq DOMAIN db[P]
              /\ \A k \in DOMAIN db'[P] : db'[P][k] = db[P][k]
              /\ DOMAIN db[P] \ listed \subseteq DOMAIN db'[P]
              /\ (\A i \in 1..Len(ids) : req'.faults[i] = "none")
                 => \A k \in listed :
                      LET was == IF k \in DOMAIN db[P] THEN 1 ELSE 0
                      IN /\ k \notin DOMAIN db'[P]
                         /\ EntriesFor(resp'.body.done_merchants, k) = was
                         /\ EntriesFor(failed, k) = Listings(ids, k) - was
                         /\ \A j \in 1..Len(failed) :
                              failed[j].merchant_id = k
                              => failed[j].error = NotFoundText(k) ]_vars

\* C22 witness: one of two pending merchants is denied while the merchants
\* collection holds a document under the same key.
C22_Witness ==
    /\ ~Idle
    /\ req.handler = "deny_pending_merchant"
    /\ req.body.merchant_ids.list = <<"-5jUStdQGpW">>
    /\ resp.status = HTTP_OK
    /\ "-5jUStdQGpW" \notin DOMAIN db[PENDING_MERCHANTS_COLLECTION]
    /\ "0QVg0Xa0x0B" \in DOMAIN db[PENDING_MERCHANTS_COLLECTION]
    /\ "-5jUStdQGpW" \in DOMAIN db[MERCHANTS_COLLECTION]


\* An approve / deny request answered with the results of its loop.
MoverAnswered ==
    /\ ~Idle
    /\ req.handler \in MoverHandlers
    /\ "done_merchants" \in DOMAIN resp.body

\* C23: in an approve or deny response success holds exactly when no key
\* failed, the counts are the lengths of the two lists and add up to the
\* number of submitted merchant_ids, the status is 200 without a failed key
\* and 207 with one, and, when no call raises, a key is listed at most once
\* as succeeded and its other listings are failures 'not found'.
C23_MoverCounts ==
    MoverAnswered
    => LET body == resp.body
           ids == req.body.merchant_ids.list
           failed == FailedEntries(body)
       IN /\ body.success <=> (Len(failed) = 0)
          /\ body.succeeded = Len(body.done_merchants)
          /\ body.failed_count = Len(failed)
          /\ body.total_merchants = Len(ids)
          /\ body.succeeded + body.failed_count = Len(ids)
          /\ resp.status = IF Len(failed) = 0 THEN HTTP_OK ELSE HTTP_MULTI_STATUS
          /\ (\A i \in 1..Len(ids) : req.faults[i] = "none")
             => \A i \in 1..Len(ids) :
                  /\ EntriesFor(body.done_merchants, ids[i]) <= 1
                  /\ EntriesFor(body.done_merchants, ids[i]) + EntriesFor(failed, ids[i])
                       = Listings(ids, ids[i])
                  /\ \A j \in 1..Len(failed) : failed[j].error = NotFoundText(failed[j].merchant_id)

\* C23 witness: a key listed twice is approved once and fails once.
C23_Witness ==
    /\ MoverAnswered
    /\ req.handler = "approve_pending_merchant"
    /\ req.body.merchant_ids.list = <<"-5jUStdQGpW", "-5jUStdQGpW">>
    /\ req.faults = <<"none", "none">>
    /\ resp.status = HTTP_MULTI_STATUS
    /\ resp.body.succeeded = 1
    /\ resp.body.failed_count = 1
    /\ FailedEntries(resp.body)[1].error = NotFoundText("-5jUStdQGpW")


\* A request that is no preflight and carries an Origin header that is not on
\* the allow-list.
ForeignOrigin ==
    /\ ~Idle
    /\ req.method # "OPTIONS"
    /\ req.origin # NoOrigin
    /\ req.origin \notin ALLOWED_ORIGINS

\* C24 as stated: every handler answers such a request with 403, without an
\* Access-Control-Allow-Origin header that repeats the origin and without a
\* call on the document store or on the model API.
C24_ForeignOriginForbidden ==
    ForeignOrigin
    => /\ resp.headers.allow_origin # req.origin
       /\ resp.status = HTTP_FORBIDDEN
       /\ oplog = <<>>


\* The number of the first j results of stored that address the key of the j-th.
UpTo(stored, j) ==
    Cardinality({ i \in 1..j : stored[i].document_id = stored[j].document_id })

\* C25: the items of a contact batch are handled in submission order, each
\* with a get and then a set, and an item finds what the earlier items of the
\* request wrote: the results are in submission order, an item is 'created'
\* exactly when its key had no document and no earlier item of the request
\* addressed it, total_messages counts the prior messages and those of the
\* request up to the item, and the document ends with the messages of the
\* request for its key in order.
C25_BatchInOrder ==
    [][ (req'.handler \in ContactStores /\ "stored_successfully" \in DOMAIN resp'.body)
        => LET c == CollectionOf(req'.handler)
               stored == resp'.body.stored_contacts
               passed == PassedPositions(req')
               items == Submitted(req')
           IN /\ Len(stored) = Len(passed)
              /\ \A j \in 1..Len(stored) :
                   LET k == stored[j].document_id
                   IN /\ stored[j].email = items[passed[j]].email
                      /\ k = ContactKey(c, items[passed[j]])
                      /\ stored[j].total_messages
                           = Len(PriorMessages(db[c], k)) + UpTo(stored, j)
                      /\ (stored[j].action = "created")
                           <=> (k \notin DOMAIN db[c] /\ UpTo(stored, j) = 1)
                      /\ stored[j].action \in {"created", "updated"}
                      /\ db'[c][k].message
                           = JList(PriorMessages(db[c], k) \o NewMessages(req', stored, k))
              /\ (\A i \in 1..Len(items) : req'.faults[i] = "none")
                 => /\ Len(oplog') = 2 * Len(items)
                    /\ \A i \in 1..Len(items) :
                         /\ oplog'[2 * i - 1] = OpGet(c, ContactKey(c, items[i]), TRUE)
                         /\ oplog'[2 * i] = OpSet(c, ContactKey(c, items[i]), TRUE) ]_vars

\* C25 witness: a batch of two items with the address a@b.com and the
\* messages "hi" and "bye" is stored into an empty collection.
C25_Witness ==
    /\ ~Idle
    /\ req.handler \in ContactStores
    /\ nops = 1
    /\ resp.status = HTTP_OK
    /\ Len(resp.body.stored_contacts) = 2
    /\ \A j \in 1..2 : resp.body.stored_contacts[j].email = "a@b.com"
    /\ resp.body.stored_contacts[1].action = "created"
    /\ resp.body.stored_contacts[1].total_messages = 1
    /\ resp.body.stored_contacts[2].action = "updated"
    /\ resp.body.stored_contacts[2].total_messages = 2
    /\ db[CollectionOf(req.handler)][resp.body.stored_contacts[1].document_id].message
         = JList(<<"hi", "bye">>)


\* C26 as stated: every error entry of a store_merchant or
\* store_pending_merchant response carries in merchant_index the 1-based
\* position of its item in the batch: the n-th entry of a pre-validation
\* rejection that of the n-th item that fails validation, the n-th entry of a
\* stored batch that of the n-th item whose calls raised.
C26_MerchantIndexIsPosition ==
    (StoreEnvelope /\ req.handler \in MerchantStores /\ IsList(resp.body.errors))
    => LET c == CollectionOf(req.handler)
           items == Submitted(req)
           offending ==
               IF Validated(req) THEN FailedPositions(req)
               ELSE SelectSeq([i \in 1..Len(items) |-> i], LAMBDA i : ~ItemValid(items[i], c))
           errors == resp.body.errors.list
       IN /\ Len(errors) = Len(offending)
          /\ \A n \in 1..Len(errors) : errors[n].merchant_index = offending[n]


KeyedCollections ==
    { LANDING_SITE_CONTACT_FORM_LEAD_COLLECTION, MERCHANTS_COLLECTION,
      PENDING_MERCHANTS_COLLECTION }

\* Every document of the three collections is under the short id of the
\* normal form of its own email field.
KeyOfOwnEmail ==
    \A c \in KeyedCollections : \A k \in DOMAIN db[c] :
        k = Sha256B64Prefix(normalize_email(db[c][k].email))

\* A step leaves a document that stays in its collection at its key, puts the
\* document of an approved key into merchants at the key it had in
\* pending-merchants, and writes a new key only for a document whose address
\* no other key of the collection holds.
KeysKept ==
    /\ \A c \in KeyedCollections : \A k \in DOMAIN db[c], k2 \in DOMAIN db'[c] :
         normalize_email(db'[c][k2].email) = normalize_email(db[c][k].email) => k2 = k
    /\ req'.handler = "approve_pending_merchant" /\ "done_merchants" \in DOMAIN resp'.body
       => \A j \in 1..Len(resp'.body.done_merchants) :
            LET k == resp'.body.done_merchants[j].merchant_id
            IN /\ k \in DOMAIN db[PENDING_MERCHANTS_COLLECTION]
               /\ k \in DOMAIN db'[MERCHANTS_COLLECTION]
               /\ db'[MERCHANTS_COLLECTION][k] = db[PENDING_MERCHANTS_COLLECTION][k]

\* C27: from empty collections, after any sequence of lead, merchant and
\* pending-merchant stores, approvals and denials, every document of the lead,
\* merchants and pending-merchants collections is stored under the key derived
\* from the normalised form of its own email; an approval keeps the key, and
\* no request moves a document to another key.
C27_KeyIsOwnEmail == [](KeyOfOwnEmail) /\ [][KeysKept]_vars

\* C27 witness: the pending merchant stored with the address " A@B.com" has
\* been approved and is in merchants under the key of a@b.com.
C27_Witness ==
    /\ ~Idle
    /\ req.handler = "approve_pending_merchant"
    /\ resp.status = HTTP_OK
    /\ "-5jUStdQGpW" \in DOMAIN db[MERCHANTS_COLLECTION]
    /\ db[MERCHANTS_COLLECTION]["-5jUStdQGpW"].email = " A@B.com"
    /\ "-5jUStdQGpW" \notin DOMAIN db[PENDING_MERCHANTS_COLLECTION]


\* Store request r without the items whose firestore calls raise.
WithoutFailed(r) ==
    [r EXCEPT !.body = [f \in {BatchField(r.handler)} |->
                           JList([j \in 1..Len(PassedPositions(r)) |->
                                     Submitted(r)[PassedPositions(r)[j]]])],
              !.faults = [j \in 1..Len(PassedPositions(r)) |-> "none"]]

\* The email fields of the error entries of an envelope.
ErrorEmails(body) ==
    IF IsList(body.errors)
    THEN [j \in 1..Len(body.errors.list) |-> body.errors.list[j].email]
    ELSE <<>>

BothAcknowledged(u, a) ==
    /\ procs[u].handler = "store_pending_merchant"
    /\ procs[u].pc = "replied"
    /\ procs[u].resp.body.success
    /\ procs[a].handler = "approve_pending_merchant"
    /\ procs[a].pc = "replied"
    /\ procs[a].resp.body.success
    /\ \E j \in 1..Len(procs[a].ids) : procs[a].ids[j] = procs[u].ids[1]

\* The document instance u wrote is at its key in collection c.
UpdateHeld(u, c) ==
    /\ procs[u].ids[1] \in DOMAIN db[c]
    /\ db[c][procs[u].ids[1]] = merchant_data(procs[u].item, procs[u].now)

\* C29 as stated: when a store_pending_merchant request and an approval of the
\* same key that run at the same time have both answered with success, the
\* data of the store request is at that key in pending-merchants or in
\* merchants.
C29_AcknowledgedUpdateKept ==
    \A u \in 1..Len(procs), a \in 1..Len(procs) :
        BothAcknowledged(u, a)
        => UpdateHeld(u, PENDING_MERCHANTS_COLLECTION) \/ UpdateHeld(u, MERCHANTS_COLLECTION)


\* The last page the client fetched says there is no more.
PagingDone == pages # <<>> /\ ~pages[Len(pages)].data.pagination.has_more

\* The pages fetched so far hold records of the collection, none twice, with
\* timestamps that never rise; a page that says there is more names the cursor
\* to go on with; and when the last page says there is no more, every record
\* of the collection is in the pages.
PagesSound ==
    pages # <<>> =>
      LET coll == db[ReadCollection(pages[1].handler)]
          ids == PagedIds(Len(pages))
          last == pages[Len(pages)].data.pagination
      IN /\ \A j \in 1..Len(ids) : ids[j] \in DOMAIN coll
         /\ \A j, k \in 1..Len(ids) : j # k => ids[j] # ids[k]
         /\ \A j \in 1..(Len(ids) - 1) : coll[ids[j]].datetime >= coll[ids[j + 1]].datetime
         /\ last.has_more => last.next_cursor # PyNone
         /\ ~last.has_more => { ids[j] : j \in 1..Len(ids) } = DOMAIN coll

\* C30: on a collection that does not change, a client that starts without a
\* cursor with a limit of at least 1 and asks for the next page with the
\* next_cursor of the last one while has_more is true gets, after finitely
\* many requests, a page with has_more false, and the pages together are the
\* whole collection in descending-timestamp order, every record once.
C30_PagingTerminatesComplete ==
    /\ [](PagesSound)
    /\ (pages # <<>>) ~> PagingDone

\* C30 witness: the client has gone through a collection of at least two
\* records whose size is a multiple of the limit: the last page is empty and
\* says there is no more.
C30_Witness ==
    /\ PagingDone
    /\ Len(pages) >= 2
    /\ Len(PagedIds(Len(pages))) >= 2
    /\ Len(pages[Len(pages)].data.merchants) = 0
    /\ Cardinality(DOMAIN db[ReadCollection(pages[1].handler)]) = Len(PagedIds(Len(pages)))

====
